---- MODULE Spec2Model ----
(***************************************************************************)
(* A model of the code-review agent's workflow orchestration:              *)
(*   - the expert tool-calling loop (graph/nodes/llm_experts.py),           *)
(*   - the compiled workflow of graph/graph.py with its nodes,              *)
(*   - the streaming handlers of app/api/explain.py and the conversation    *)
(*     memory of app/core/memory.py.                                        *)
(* Each part has its own specification; the variables of the other parts    *)
(* stay at their initial values.                                            *)
(***************************************************************************)
EXTENDS Integers, Sequences, FiniteSets, TLC

VARIABLES
    \* settings.OPENAI_API_KEY set and ChatOpenAI importable
    llm_available,
    \* ---- expert tool-calling loop ----
    epc,                 \* node of the loop that runs next
    agent_messages,      \* state["agent_messages"]
    experts_iterations,  \* state["experts_iterations"]
    experts_next,        \* state["experts_next"]
    exp_logs,            \* ids of state["tool_logs"] entries
    exp_progress,        \* state["progress"]
    tools_runs,          \* how many times experts_tools_node ran
    model_runs,          \* how many times experts_model_node ran
    \* ---- compiled workflow ----
    g_state,             \* the shared graph state (the fields the nodes use)
    g_active,            \* nodes of the current superstep
    g_done,              \* nodes of the current superstep that have returned
    g_writes,            \* updates returned in this superstep, applied at its end
    g_runs,              \* node -> number of invocations in this execution
    g_failed,            \* expert branches whose LLM call or JSON parse raised
    g_collector_log,     \* the marks of the log lines collector_node wrote
    g_ended,             \* END reached, final state returned
    \* ---- conversation memory of one thread (app/core/memory.py) ----
    m_history,           \* slot.history: messages [role, content]
    m_seen_paragraphs,   \* slot.seen_paragraphs
    m_last_report_hash,  \* slot.last_report_hash
    m_last_report_text,  \* slot.last_report_text
    \* ---- one /explain or /analyze response stream (app/api/explain.py) ----
    xpc,                 \* position of event_stream
    x_handler,           \* "explain" or "analyze"
    x_mode,              \* mode of the request
    sent_report,         \* local sent_report
    streamed_chunks,     \* local streamed_chunks
    seen_paras,          \* local seen_paras
    prior_paras,         \* local prior_paras
    x_text,              \* local text: the last report the handler obtained
    x_event,             \* the event being handled
    x_out,               \* the items yielded to the consumer so far
    x_earlier,           \* report paragraphs sent in earlier chat responses of the thread
    x_executions,        \* graph executions started for this request
    x_turn,              \* requests served on the thread
    x_nevents,           \* events consumed from astream_events
    \* ---- MemorySemanticCache (graph/memory/semantic_cache.py) ----
    c_store,             \* self.store: namespace -> items in insertion order
    c_clock,             \* time.time(), in ticks
    c_last,              \* the last call and what it returned
    c_nsets,             \* set calls made
    \* ---- what synthesis_node met at the semantic cache ----
    syn_cache,           \* [lookup, store] of the last synthesis_node call
    \* ---- checkpointer selection and checkpoint writes (graph/graph.py) ----
    k_env,               \* the environment build_graph runs in
    k_app,               \* what build_graph returned
    k_checkpointer,      \* the checkpointer the running app was compiled with
    k_checkpoints,       \* the checkpoint writes of the execution, in order
    \* ---- one /chat response stream (app/api/routes.py, stream_chat) ----
    h_pc,                \* position of stream_chat
    h_out,               \* the items yielded to the consumer so far
    h_chunks,            \* local chunks
    h_final_reply_text,  \* local final_reply_text
    h_persisted,         \* local persisted
    h_repo,              \* the assistant messages repo.add_message stored
    h_nevents,           \* events consumed from astream_events
    \* ---- one run_graph_stream task (app/workers/tasks.py) ----
    w_pc,                \* position of the task
    w_pub,               \* the messages published on the channel so far
    w_final_state,       \* local final_state
    w_sent_report,       \* local sent_report
    w_nevents,           \* events consumed from stream_events
    \* ---- one /explain response stream (app/api/routes.py, event_stream) ----
    r_pc,                \* position of event_stream
    r_mode,              \* state["mode"] of the request
    r_out,               \* the items forwarded to the consumer so far
    r_completed,         \* nodes whose completion event was delivered
    r_final_text,        \* local final_text
    r_final_state,       \* local final_state is a dict
    r_streamed_chunks,   \* local streamed_chunks
    r_updates,           \* the repo.update_thread calls made, by report text
    \* ---- the Celery branch of explain.event_stream and its subscription ----
    q_pc,                \* position of the branch
    q_task,              \* what run_graph_stream.delay did
    q_from,              \* messages published before the subscription
    q_read,              \* messages read from the subscription and yielded
    \* ---- callers of the conversation memory (app/core/memory.py) ----
    n_thr,               \* thread -> the call it is in: op, content, what it read, result
    n_calls,             \* calls started
    \* ---- the thread routes: repository and Redis cache for one thread id ----
    t_redis,             \* a Redis client is configured
    t_thread,            \* the thread's row
    t_msgs,              \* the thread's messages
    t_cache,             \* the value under threads:item:{thread_id}
    t_got,               \* the response of the last GET /threads/{thread_id}
    t_last,              \* the last request served
    t_nops               \* requests served

expVars == <<epc, agent_messages, experts_iterations, experts_next, exp_logs,
             exp_progress, tools_runs, model_runs>>
gVars == <<g_state, g_active, g_done, g_writes, g_runs, g_failed,
           g_collector_log, g_ended>>
mVars == <<m_history, m_seen_paragraphs, m_last_report_hash, m_last_report_text>>
xVars == <<xpc, x_handler, x_mode, sent_report, streamed_chunks, seen_paras, prior_paras,
           x_text, x_event, x_out, x_earlier, x_executions, x_turn, x_nevents>>
cVars == <<c_store, c_clock, c_last, c_nsets>>
\* The parts added to the model after the workflow and the explain streams.
sVars == <<syn_cache>>
kVars == <<k_env, k_app, k_checkpointer, k_checkpoints>>
chatVars == <<h_pc, h_out, h_chunks, h_final_reply_text, h_persisted, h_repo, h_nevents>>
wVars == <<w_pc, w_pub, w_final_state, w_sent_report, w_nevents>>
rVars == <<r_pc, r_mode, r_out, r_completed, r_final_text, r_final_state,
           r_streamed_chunks, r_updates>>
qVars == <<q_pc, q_task, q_from, q_read>>
nVars == <<n_thr, n_calls>>
tVars == <<t_redis, t_thread, t_msgs, t_cache, t_got, t_last, t_nops>>
hVars == <<chatVars, wVars, rVars, qVars, nVars, tVars>>
oVars == <<cVars, sVars, kVars, hVars>>
vars == <<llm_available, expVars, gVars, mVars, xVars, oVars>>

NoValue == "None"
\* None where a dict is expected
NoDict == [is_dict |-> FALSE]

\* The initial values of the parts a specification does not exercise.
GraphIdle ==
    /\ g_state = [mode |-> NoValue]
    /\ g_active = {}
    /\ g_done = {}
    /\ g_writes = <<>>
    /\ g_runs = [n \in {} |-> 0]
    /\ g_failed = {}
    /\ g_collector_log = <<>>
    /\ g_ended = FALSE

ExpertsIdle ==
    /\ epc = "idle"
    /\ agent_messages = <<>>
    /\ experts_iterations = 0
    /\ experts_next = NoValue
    /\ exp_logs = <<>>
    /\ exp_progress = 0
    /\ tools_runs = 0
    /\ model_runs = 0

EmptyText == [ps |-> <<>>, ws |-> FALSE]
NoEvent == [event |-> "none"]

StreamIdle ==
    /\ m_history = <<>>
    /\ m_seen_paragraphs = {}
    /\ m_last_report_hash = EmptyText
    /\ m_last_report_text = EmptyText
    /\ xpc = "idle"
    /\ x_handler = NoValue
    /\ x_mode = NoValue
    /\ sent_report = FALSE
    /\ streamed_chunks = <<>>
    /\ seen_paras = {}
    /\ prior_paras = <<>>
    /\ x_text = EmptyText
    /\ x_event = NoEvent
    /\ x_out = <<>>
    /\ x_earlier = {}
    /\ x_executions = 0
    /\ x_turn = 0
    /\ x_nevents = 0

Namespaces == {"synthesis", "experts"}
NoCall == [op |-> "none"]

CacheIdle ==
    /\ c_store = [ns \in Namespaces |-> <<>>]
    /\ c_clock = 0
    /\ c_last = NoCall
    /\ c_nsets = 0

SynthesisIdle == syn_cache = [lookup |-> "none", store |-> "none"]

NoEnv == [LANGGRAPH_CHECKPOINTER |-> "0"]
NotBuilt == [built |-> FALSE]

BuildIdle ==
    /\ k_env = NoEnv
    /\ k_app = NotBuilt

CheckpointIdle ==
    /\ k_checkpointer = "none"
    /\ k_checkpoints = <<>>

NoReplyText == [set |-> FALSE, parts |-> <<>>]

ChatIdle ==
    /\ h_pc = "idle"
    /\ h_out = <<>>
    /\ h_chunks = <<>>
    /\ h_final_reply_text = NoReplyText
    /\ h_persisted = FALSE
    /\ h_repo = <<>>
    /\ h_nevents = 0

NoState == [set |-> FALSE, final_report |-> EmptyText]

WorkerIdle ==
    /\ w_pc = "idle"
    /\ w_pub = <<>>
    /\ w_final_state = NoState
    /\ w_sent_report = FALSE
    /\ w_nevents = 0

RoutesIdle ==
    /\ r_pc = "idle"
    /\ r_mode = NoValue
    /\ r_out = <<>>
    /\ r_completed = {}
    /\ r_final_text = EmptyText
    /\ r_final_state = FALSE
    /\ r_streamed_chunks = <<>>
    /\ r_updates = <<>>

PubSubIdle ==
    /\ q_pc = "idle"
    /\ q_task = "none"
    /\ q_from = 0
    /\ q_read = 0

Threads == 1..2
NoMessage == [role |-> "none", content |-> EmptyText]
NoMemoryCall == [pc |-> "idle", op |-> "none", content |-> EmptyText, last |-> NoMessage,
                 ret |-> FALSE]

CallersIdle ==
    /\ n_thr = [t \in Threads |-> NoMemoryCall]
    /\ n_calls = 0

\* No row: the thread does not exist. "None" stands for None.
NoThread == [exists |-> FALSE, title |-> "None", report_text |-> "None",
             state_json |-> "None", file_count |-> 0, updated_at |-> 0]

\* {}: the response for a missing thread, and a missing cache entry.
NoSnapshot == [thread_id |-> FALSE, title |-> "None", report_text |-> "None",
               state |-> "None", messages |-> <<>>]

ThreadsIdle ==
    /\ t_redis = FALSE
    /\ t_thread = NoThread
    /\ t_msgs = <<>>
    /\ t_cache = NoSnapshot
    /\ t_got = NoSnapshot
    /\ t_last = "none"
    /\ t_nops = 0

HandlersIdle ==
    ChatIdle /\ WorkerIdle /\ RoutesIdle /\ PubSubIdle /\ CallersIdle /\ ThreadsIdle

OthersIdle == CacheIdle /\ SynthesisIdle /\ BuildIdle /\ CheckpointIdle /\ HandlersIdle

Min(a, b) == IF a < b THEN a ELSE b
Max(a, b) == IF a > b THEN a ELSE b

(***************************************************************************)
(* Expert tool-calling loop: experts_model -> experts_tools -> experts_model *)
(***************************************************************************)

\* Largest number of tool calls in one assistant message.
MaxToolCalls == 2
\* Longest persisted agent_messages an execution starts with.
MaxInitMsgs == 2
\* Model turns explored in one execution of the loop.
MaxModelRuns == 5

\* The iteration budget of the loop.
ExpertsBudget == 2

SystemMessage == [kind |-> "system", calls |-> 0]
HumanMessage == [kind |-> "human", calls |-> 0]
ToolMessage == [kind |-> "tool", calls |-> 0]
AIMessage(n) == [kind |-> "ai", calls |-> n]

MessageSet == {HumanMessage, ToolMessage} \cup {AIMessage(n) : n \in 0..1}

SeqsUpTo(S, n) == UNION {[1..k -> S] : k \in 0..n}

_initial_messages == <<SystemMessage, HumanMessage>>

\* The tool calls of the assistant message closest before position idx (0 when
\* there is no assistant message before it).
PrevAICalls(msgs, idx) ==
    LET js == {j \in 1..(idx - 1) : msgs[j].kind = "ai"}
    IN IF js = {} THEN 0 ELSE msgs[CHOOSE j \in js : \A k \in js : k <= j].calls

\* Every tool message follows an assistant message that has tool calls.
ValidHistory(msgs) ==
    \A idx \in 1..Len(msgs) : msgs[idx].kind = "tool" => PrevAICalls(msgs, idx) > 0

SanitizedMessages(msgs) ==
    LET m0 == IF msgs = <<>> THEN _initial_messages ELSE msgs
    IN IF (\E i \in 1..Len(m0) : m0[i].kind = "tool") /\ ~ValidHistory(m0)
       THEN _initial_messages ELSE m0

BudgetRemainsOffByOne(iter_count) == iter_count <= ExpertsBudget
BudgetRemains(iter_count) == iter_count < ExpertsBudget

RouteDecision(has_tools, iter_count) ==
    IF has_tools /\ BudgetRemains(iter_count) THEN "tools" ELSE "finalize"

\* experts_model_node, semantic-cache hit: reports merged, straight to finalize.
ModelCacheHit ==
    /\ exp_logs' = Append(exp_logs, "semantic-cache")
    /\ experts_next' = "finalize"
    /\ UNCHANGED <<agent_messages, experts_iterations>>

\* experts_model_node without a usable model, or with the model call raising.
ModelSkipped ==
    /\ agent_messages' = SanitizedMessages(agent_messages)
    /\ experts_next' = "finalize"
    /\ UNCHANGED <<experts_iterations, exp_logs>>

\* experts_model_node with a model answer carrying n tool calls.
ModelAnswered(n) ==
    /\ llm_available
    /\ agent_messages' = Append(SanitizedMessages(agent_messages), AIMessage(n))
    /\ experts_next' = RouteDecision(n > 0, experts_iterations)
    /\ UNCHANGED <<experts_iterations, exp_logs>>

experts_model_node ==
    /\ epc = "model"
    /\ model_runs < MaxModelRuns
    /\ \/ ModelCacheHit
       \/ ModelSkipped
       \/ \E n \in 0..MaxToolCalls : ModelAnswered(n)
    /\ model_runs' = model_runs + 1
    /\ epc' = experts_next'
    /\ UNCHANGED <<llm_available, oVars, exp_progress, tools_runs, gVars, mVars, xVars>>

\* ToolNode answers each tool call of the last assistant message.
ToolMessagesFor(msgs) ==
    LET last == msgs[Len(msgs)]
    IN [i \in 1..last.calls |-> ToolMessage]

experts_tools_node ==
    /\ epc = "tools"
    /\ agent_messages' = agent_messages \o ToolMessagesFor(agent_messages)
    /\ experts_iterations' = experts_iterations + 1
    /\ tools_runs' = tools_runs + 1
    /\ epc' = "model"
    /\ UNCHANGED <<llm_available, oVars, experts_next, exp_logs, exp_progress, model_runs, gVars, mVars, xVars>>

experts_finalize_node ==
    /\ epc = "finalize"
    /\ exp_logs' = Append(exp_logs, "llm-experts")
    /\ exp_progress' = Min(100, exp_progress + 10)
    /\ epc' = "done"
    /\ UNCHANGED <<llm_available, oVars, agent_messages, experts_iterations, experts_next,
                   tools_runs, model_runs, gVars, mVars, xVars>>

(***************************************************************************)
(* The compiled workflow of build_graph                                     *)
(***************************************************************************)

Nodes == {"mode_gate", "router", "build_context", "tools_parallel",
          "security_expert", "api_expert", "db_expert", "ast_analysis",
          "collector", "synthesis", "persist",
          "chat_context_enrich", "chat_reply"}

\* graph.add_edge(a, b), END included
Edges == {<<"chat_context_enrich", "chat_reply">>,
          <<"router", "build_context">>,
          <<"build_context", "tools_parallel">>,
          <<"tools_parallel", "security_expert">>,
          <<"tools_parallel", "api_expert">>,
          <<"tools_parallel", "db_expert">>,
          <<"tools_parallel", "ast_analysis">>,
          <<"security_expert", "collector">>,
          <<"api_expert", "collector">>,
          <<"db_expert", "collector">>,
          <<"ast_analysis", "collector">>,
          <<"collector", "synthesis">>,
          <<"synthesis", "persist">>,
          <<"chat_reply", "persist">>,
          <<"persist", "END">>}

ChatNodes == {"chat_context_enrich", "chat_reply"}
AnalysisNodes == {"router", "build_context", "tools_parallel", "security_expert",
                  "api_expert", "db_expert", "ast_analysis", "collector", "synthesis"}
CollectorPredecessors == {n \in Nodes : <<n, "collector">> \in Edges}

\* The values of state["mode"] an execution starts with.
ModeValues == {"chat", "CHAT", "orchestrator", NoValue}

\* str(x or "").lower()
LowerMode(m) ==
    CASE m \in {"chat", "CHAT"} -> "chat"
      [] m = NoValue -> ""
      [] OTHER -> m

_route_modeAlwaysAnalyze(state) == "analyze"
_route_mode(state) == IF LowerMode(state.mode) = "chat" THEN "chat" ELSE "analyze"

\* the label -> destination mapping of add_conditional_edges
ModeMapping == [chat |-> "chat_context_enrich", analyze |-> "router"]

ConditionalTargetsAll(state) == {ModeMapping[l] : l \in DOMAIN ModeMapping}
ConditionalTargets(state) == {ModeMapping[_route_mode(state)]}

\* The nodes triggered by the nodes that ran in a superstep.
Successors(ran, state) ==
    {e[2] : e \in {d \in Edges : d[1] \in ran}}
        \cup (IF "mode_gate" \in ran THEN ConditionalTargets(state) ELSE {})

SuperstepCompleteEager == g_done # {}
\* A superstep ends when every node scheduled in it has returned.
SuperstepComplete == g_done = g_active

\* initial_state(code, history, mode, agents), with the keys a request adds
initial_state(mode, chat_query) ==
    [mode |-> mode,
     chat_query |-> chat_query,
     language |-> NoValue,
     progress |-> 0,
     security_report |-> NoDict,
     quality_report |-> NoDict,
     ast_report |-> NoDict,
     final_report |-> NoValue]

\* state.get(key) for the keys that hold dicts
Get(state, key) == IF key \in DOMAIN state THEN state[key] ELSE NoDict

\* state | update, key by key
Merge(state, upd) ==
    [k \in DOMAIN state \cup DOMAIN upd |-> IF k \in DOMAIN upd THEN upd[k] ELSE state[k]]

\* The updates of one superstep, applied to the state (writes: node -> update).
RECURSIVE ApplyWrites(_, _)
ApplyWrites(state, writes) ==
    IF DOMAIN writes = {} THEN state
    ELSE LET n == CHOOSE m \in DOMAIN writes : TRUE
         IN ApplyWrites(Merge(state, writes[n]),
                        [m \in DOMAIN writes \ {n} |-> writes[m]])

\* A node of the current superstep returns update upd.
Complete(n, upd) ==
    /\ ~g_ended
    /\ n \in g_active \ g_done
    /\ g_done' = g_done \cup {n}
    /\ g_writes' = (n :> upd) @@ g_writes
    /\ g_runs' = [g_runs EXCEPT ![n] = @ + 1]

_mode_gate ==
    /\ Complete("mode_gate", g_state)
    /\ UNCHANGED <<llm_available, oVars, expVars, mVars, xVars, g_state, g_active, g_failed, g_collector_log, g_ended>>

router_node ==
    /\ \E lang \in {"python", "javascript"} :
         Complete("router", [g_state EXCEPT !.language = lang,
                                            !.progress = Min(100, @ + 5)])
    /\ UNCHANGED <<llm_available, oVars, expVars, mVars, xVars, g_state, g_active, g_failed, g_collector_log, g_ended>>

context_node ==
    /\ Complete("build_context", [g_state EXCEPT !.progress = Max(@, 20)])
    /\ UNCHANGED <<llm_available, oVars, expVars, mVars, xVars, g_state, g_active, g_failed, g_collector_log, g_ended>>

\* What the scanners can find in the code.
VulnSets == {{}, {"eval_usage"}}

tools_parallel_node ==
    /\ \E vulns \in VulnSets :
         Complete("tools_parallel",
                  [g_state EXCEPT !.security_report = [is_dict |-> TRUE, vulnerabilities |-> vulns],
                                  !.quality_report = [is_dict |-> TRUE, issues |-> {}],
                                  !.ast_report = [is_dict |-> TRUE, tree_sitter_findings |-> {}],
                                  !.progress = Max(@, 70)])
    /\ UNCHANGED <<llm_available, oVars, expVars, mVars, xVars, g_state, g_active, g_failed, g_collector_log, g_ended>>

\* An expert analysis: a dict whose lists are empty or not.
Analysis(found) == [is_dict |-> TRUE, found |-> found]
default_analysis == Analysis({})

\* if x: ... of Python, for None and for dicts with keys
Truthy(x) == x.is_dict

\* return {key: analysis}
ExpertUpdateWholeState(key, analysis) == Merge(g_state, [k \in {key} |-> analysis])
ExpertUpdate(key, analysis) == [k \in {key} |-> analysis]

\* One of the three LLM expert nodes: without an API key the default analysis;
\* with one, the parsed answer, or the default analysis when the call or the
\* JSON parse raises. The node returns its own key only.
ExpertNode(n, key, lists) ==
    /\ \/ /\ Complete(n, ExpertUpdate(key, default_analysis))
          /\ UNCHANGED g_failed
       \/ /\ llm_available
          /\ \E found \in SUBSET lists : Complete(n, ExpertUpdate(key, Analysis(found)))
          /\ UNCHANGED g_failed
       \/ /\ llm_available
          /\ Complete(n, ExpertUpdate(key, default_analysis))
          /\ g_failed' = g_failed \cup {n}
    /\ UNCHANGED <<llm_available, oVars, expVars, mVars, xVars, g_state, g_active, g_collector_log, g_ended>>

security_expert_node ==
    ExpertNode("security_expert", "security_expert_analysis", {"critical"})

api_expert_node ==
    ExpertNode("api_expert", "api_expert_analysis", {"issues", "improvements"})

db_expert_node ==
    ExpertNode("db_expert", "db_expert_analysis", {"risks"})

\* Without tree-sitter the node returns {}; else ast_report with its findings.
ast_tree_sitter_node ==
    /\ \/ Complete("ast_analysis", <<>>)
       \/ \E findings \in {{}, {"long_function"}} :
            Complete("ast_analysis",
                     [k \in {"ast_report"} |->
                         [is_dict |-> TRUE, tree_sitter_findings |-> findings]])
    /\ UNCHANGED <<llm_available, oVars, expVars, mVars, xVars, g_state, g_active, g_failed, g_collector_log, g_ended>>

Found(analysis) == IF Truthy(analysis) THEN analysis.found ELSE {}

_format_security_section(tool_report, expert_analysis) ==
    [tool_findings |-> IF Truthy(tool_report) THEN tool_report.vulnerabilities ELSE {},
     expert |-> Found(expert_analysis)]

\* The section is dropped when the first two lists (endpoints and issues, or
\* queries and risks) are both empty.
_format_expert_section(expert_analysis, main) ==
    IF Found(expert_analysis) \cap main = {} THEN {} ELSE Found(expert_analysis)

\* The marks of the collector's log line: one per input, by truthiness.
CollectorMarks(state) ==
    [security_expert |-> Truthy(Get(state, "security_expert_analysis")),
     quality |-> Truthy(Get(state, "quality_report")),
     api_expert |-> Truthy(Get(state, "api_expert_analysis")),
     db_expert |-> Truthy(Get(state, "db_expert_analysis"))]

ExpertSummary(state) ==
    [security |-> _format_security_section(Get(state, "security_report"),
                                           Get(state, "security_expert_analysis")),
     quality |-> Truthy(Get(state, "quality_report")),
     api |-> _format_expert_section(Get(state, "api_expert_analysis"), {"issues"}),
     db |-> _format_expert_section(Get(state, "db_expert_analysis"), {"risks"})]

collector_node ==
    /\ Complete("collector",
                Merge(g_state, [expert_summary |-> ExpertSummary(g_state), progress |-> 80]))
    /\ g_collector_log' = Append(g_collector_log, CollectorMarks(g_state))
    /\ UNCHANGED <<llm_available, oVars, expVars, mVars, xVars, g_state, g_active, g_failed, g_ended>>

\* The text synthesis_node stores in final_report: a cached text, the LLM's
\* answer (a string, or a list of content parts), or the deterministic fallback.
SynthesisTextsNoFallback(state) ==
    {"cached_text"}
      \cup (IF llm_available THEN {"llm_text", "llm_content_list"} ELSE {NoValue})
SynthesisTexts(state) ==
    {"cached_text"}
      \cup (IF llm_available THEN {"llm_text", "llm_content_list"} ELSE {})
      \cup {IF state.mode = "chat" THEN "chat_fallback" ELSE "fallback_markdown"}

IsStr(x) == x \in {"cached_text", "llm_text", "chat_fallback", "fallback_markdown",
                   "llm_reply", "fallback_reply", "Please include a question."}

\* What the cache lookup of synthesis_node can do: raise, miss, return a hit
\* without a usable text, or return a hit with one.
CacheLookups == {"raises", "miss", "malformed", "hit"}

\* The lookups after which the cached text is returned.
CachedTextUsedOnMalformed(lookup) == lookup \in {"hit", "malformed"}
CachedTextUsed(lookup) == lookup = "hit"

\* state["progress"] after synthesis_node: 30 more, at most 100.
synthesis_progressUncapped(cur) == cur + 30
synthesis_progress(cur) == Min(100, cur + 30)

\* The texts the LLM or the fallback computes.
ComputedTexts(state) == SynthesisTexts(state) \ {"cached_text"}

synthesis_node ==
    /\ \E lookup \in CacheLookups :
         IF CachedTextUsed(lookup)
         THEN /\ "cached_text" \in SynthesisTexts(g_state)
              /\ Complete("synthesis", [g_state EXCEPT !.final_report = "cached_text",
                                                       !.progress = synthesis_progress(@)])
              /\ syn_cache' = [lookup |-> lookup, store |-> "none"]
         ELSE \E text \in ComputedTexts(g_state), store \in {"stored", "raises"} :
                /\ Complete("synthesis", [g_state EXCEPT !.final_report = text,
                                                         !.progress = synthesis_progress(@)])
                /\ syn_cache' = [lookup |-> lookup, store |-> store]
    /\ UNCHANGED <<llm_available, hVars, cVars, kVars, expVars, mVars, xVars, g_state, g_active,
                   g_failed, g_collector_log, g_ended>>

chat_context_enrich_node ==
    /\ \/ Complete("chat_context_enrich", [k \in {} |-> NoValue])
       \/ /\ llm_available
          /\ g_state.chat_query # NoValue
          /\ Complete("chat_context_enrich", [chat_context_docs |-> {"doc"}])
    /\ UNCHANGED <<llm_available, oVars, expVars, mVars, xVars, g_state, g_active, g_failed, g_collector_log, g_ended>>

chat_reply_node ==
    /\ IF g_state.chat_query = NoValue
       THEN Complete("chat_reply", [chat_response |-> "Please include a question."])
       ELSE \E reply \in {"fallback_reply"} \cup (IF llm_available THEN {"llm_reply"} ELSE {}) :
              Complete("chat_reply",
                       Merge(g_state, [chat_response |-> reply,
                                       progress |-> Min(100, g_state.progress + 5)]))
    /\ UNCHANGED <<llm_available, oVars, expVars, mVars, xVars, g_state, g_active, g_failed, g_collector_log, g_ended>>

_persist_node ==
    /\ Complete("persist", g_state)
    /\ UNCHANGED <<llm_available, oVars, expVars, mVars, xVars, g_state, g_active, g_failed, g_collector_log, g_ended>>

\* The engine closes the superstep: the updates are applied, the successors of the
\* nodes that ran are scheduled, END ends the execution, and an app compiled with
\* a checkpointer saves a checkpoint of the step.
EndSuperstep ==
    /\ ~g_ended
    /\ g_active # {}
    /\ SuperstepComplete
    /\ g_state' = ApplyWrites(g_state, g_writes)
    /\ LET next == Successors(g_done, g_state')
       IN /\ g_active' = next \ {"END"}
          /\ g_ended' = (next \ {"END"} = {})
    /\ g_done' = {}
    /\ g_writes' = <<>>
    /\ k_checkpoints' = IF k_checkpointer # "none" THEN Append(k_checkpoints, g_done)
                        ELSE k_checkpoints
    /\ UNCHANGED <<llm_available, hVars, cVars, sVars, k_env, k_app, k_checkpointer, expVars, mVars,
                   xVars, g_runs, g_failed, g_collector_log>>

InitGraph ==
    /\ llm_available \in BOOLEAN
    /\ ExpertsIdle
    /\ \E mode \in ModeValues, q \in {NoValue, "question"} :
         g_state = initial_state(mode, q)
    /\ g_active = {"mode_gate"}
    /\ g_done = {}
    /\ g_writes = <<>>
    /\ g_runs = [n \in Nodes |-> 0]
    /\ g_failed = {}
    /\ g_collector_log = <<>>
    /\ g_ended = FALSE
    /\ StreamIdle
    /\ CacheIdle
    /\ SynthesisIdle
    /\ BuildIdle
    /\ HandlersIdle
    /\ k_checkpointer \in {"none", "memory"}
    /\ k_checkpoints = <<>>

NextGraph ==
    \/ _mode_gate
    \/ router_node
    \/ context_node
    \/ tools_parallel_node
    \/ security_expert_node
    \/ api_expert_node
    \/ db_expert_node
    \/ ast_tree_sitter_node
    \/ collector_node
    \/ synthesis_node
    \/ chat_context_enrich_node
    \/ chat_reply_node
    \/ _persist_node
    \/ EndSuperstep

SpecGraph == InitGraph /\ [][NextGraph]_vars

\* Every node handler returns and the engine keeps scheduling: an enabled step
\* of the execution is eventually taken.
FairSpecGraph == SpecGraph /\ WF_vars(NextGraph)

InitExperts ==
    /\ llm_available \in BOOLEAN
    /\ epc = "model"
    /\ agent_messages \in SeqsUpTo(MessageSet, MaxInitMsgs)
    /\ experts_iterations = 0
    /\ experts_next = NoValue
    /\ exp_logs = <<>>
    /\ exp_progress \in {0, 95}
    /\ tools_runs = 0
    /\ model_runs = 0
    /\ GraphIdle
    /\ StreamIdle
    /\ OthersIdle

NextExperts == experts_model_node \/ experts_tools_node \/ experts_finalize_node

SpecExperts == InitExperts /\ [][NextExperts]_vars

\* C1: starting from experts_iterations = 0 and whatever the model answers,
\* experts_tools_node runs at most twice in one execution, and the model node
\* routes to "tools" only while experts_iterations is below the budget of 2.
C1_ToolsRunAtMostTwice ==
    /\ tools_runs <= 2
    /\ tools_runs = experts_iterations
    /\ (epc = "tools" => experts_next = "tools" /\ experts_iterations < 2)
    /\ (epc \in {"finalize", "done"} => experts_next = "finalize")

\* The model asked for tools a third time and was sent to finalize.
C1_Witness ==
    /\ tools_runs = 2
    /\ epc = "finalize"
    /\ agent_messages # <<>>
    /\ agent_messages[Len(agent_messages)].kind = "ai"
    /\ agent_messages[Len(agent_messages)].calls > 0

AnalysisBranch == LowerMode(g_state.mode) # "chat"
Ran(S) == \E n \in S : g_runs[n] > 0 \/ n \in g_active

\* C2: collector_node is invoked exactly once per analysis execution, and only
\* after security_expert, api_expert, db_expert and ast_analysis have all
\* completed, in whatever order they return.
C2_CollectorOnceAfterAll ==
    /\ g_runs["collector"] <= 1
    /\ ("collector" \in g_active \/ g_runs["collector"] > 0
           => \A p \in CollectorPredecessors : g_runs[p] = 1)
    /\ (g_ended /\ AnalysisBranch => g_runs["collector"] = 1)

\* The collector has run after the db expert returned first and the security
\* expert's LLM call failed.
C2_Witness ==
    /\ g_runs["collector"] = 1
    /\ g_ended
    /\ "security_expert" \in g_failed
    /\ Cardinality(CollectorPredecessors) = 4

\* C3: mode_gate activates exactly one branch per execution: in chat mode only
\* chat_context_enrich and chat_reply run and no node of the analysis branch;
\* otherwise only the analysis branch runs and no chat node.
C3_ExactlyOneBranch ==
    /\ (~AnalysisBranch => ~Ran(AnalysisNodes))
    /\ (AnalysisBranch => ~Ran(ChatNodes))
    /\ (g_ended => \A n \in (IF AnalysisBranch THEN AnalysisNodes ELSE ChatNodes) :
                      g_runs[n] = 1)

\* A chat execution has ended with both chat nodes run.
C3_Witness ==
    /\ g_ended
    /\ g_state.mode = "CHAT"
    /\ g_runs["chat_reply"] = 1
    /\ g_runs["chat_context_enrich"] = 1

\* C4: every execution terminates, on either branch and from every initial
\* state: persist runs exactly once, then END is reached; on the analysis branch
\* without an LLM the final state's final_report is a string.
C4_Terminates ==
    /\ <>g_ended
    /\ [](g_runs["persist"] <= 1)
    /\ [](g_ended => /\ g_runs["persist"] = 1
                     /\ g_active = {}
                     /\ (AnalysisBranch /\ ~llm_available => IsStr(g_state.final_report)))

\* An analysis without an LLM has ended with the fallback report.
C4_Witness ==
    /\ g_ended
    /\ AnalysisBranch
    /\ ~llm_available
    /\ g_state.final_report = "fallback_markdown"
    /\ g_runs["persist"] = 1

ExpertKey == [security_expert |-> "security_expert_analysis",
              api_expert |-> "api_expert_analysis",
              db_expert |-> "db_expert_analysis"]

\* C5: when one of the parallel expert branches fails while the others complete,
\* the collector still runs, expert_summary contains the findings of every branch
\* that completed, and the collector records which upstream branch failed.
C5_CollectorRecordsFailedBranch ==
    g_ended /\ AnalysisBranch =>
        /\ g_runs["collector"] = 1
        /\ Found(g_state.security_expert_analysis) \subseteq g_state.expert_summary.security.expert
        /\ Found(g_state.api_expert_analysis) \cap {"issues"} \subseteq g_state.expert_summary.api
        /\ Found(g_state.db_expert_analysis) \cap {"risks"} \subseteq g_state.expert_summary.db
        /\ Len(g_collector_log) = 1
        /\ \A b \in g_failed : ~g_collector_log[1][b]

(***************************************************************************)
(* Texts, paragraphs and the conversation memory                            *)
(***************************************************************************)

\* Longest report, in paragraphs.
MaxParas == 2
\* Requests served on the thread.
MaxTurns == 2
\* Events one astream_events run delivers before it ends or raises.
MaxEvents == 1

\* A paragraph is a sequence of lines; a text is a sequence of paragraphs, with
\* or without surrounding whitespace.
Paras == {<<"x", "x">>, <<"y">>, <<"z">>}

\* re.findall(r"[a-z0-9]+", line.lower()) as a set: x and y share six of seven
\* tokens, z shares none.
LineTokens(line) ==
    CASE line = "x" -> 1..6
      [] line = "y" -> 1..7
      [] line = "z" -> {8}
      [] OTHER -> {}

Tokens(para) == UNION {LineTokens(para[i]) : i \in DOMAIN para}

\* The similarity threshold, in percent.
SimilarityPercent == 85

_too_similar(a, b) ==
    LET ta == Tokens(a)
        tb == Tokens(b)
    IN IF ta = {} \/ tb = {} THEN FALSE
       ELSE 100 * Cardinality(ta \cap tb) >= SimilarityPercent * Cardinality(ta \cup tb)

\* The lines of a paragraph without the repeats of an earlier line.
RECURSIVE UniqueLinesFrom(_, _)
UniqueLinesFrom(lines, kept) ==
    IF lines = <<>> THEN kept
    ELSE IF \E i \in DOMAIN kept : kept[i] = Head(lines)
         THEN UniqueLinesFrom(Tail(lines), kept)
         ELSE UniqueLinesFrom(Tail(lines), Append(kept, Head(lines)))

UniqueLines(para) == UniqueLinesFrom(para, <<>>)

Text(ps, ws) == [ps |-> ps, ws |-> ws]

\* The reports and replies a graph execution can produce; EmptyText stands for
\* "", None and a value that is no string.
Texts == {Text(ps, FALSE) : ps \in SeqsUpTo(Paras, MaxParas)}
            \cup {Text(<<>>, TRUE)}

\* The user message a request brings (EmptyText: none).
UserTexts == {EmptyText, Text(<<<<"question">>>>, FALSE)}

\* str.strip()
Strip(text) == [text EXCEPT !.ws = FALSE]
\* "\n\n".join(chunks)
Join(chunks) == Text(chunks, FALSE)
\* [p.strip() for p in text.split("\n\n") if p.strip()]
Split(text) == text.ps

PH_NoNewInsightsAsk == <<"(no new insights; ask a new question or modify code)">>
PH_NoNewInsightsTry == <<"(no new insights; try a different question)">>
PH_NoChanges == <<"(no changes since last review)">>
Placeholders == {PH_NoNewInsightsAsk, PH_NoNewInsightsTry, PH_NoChanges}

_hash_text(text) == Strip(text)

_append(history, role, content) ==
    IF Strip(content) = EmptyText THEN history
    ELSE Append(history, [role |-> role, content |-> Strip(content)])

last_message(history) == IF history = <<>> THEN NoMessage ELSE history[Len(history)]

append_user(history, content) ==
    IF content = EmptyText THEN history
    ELSE IF last_message(history).role = "user"
            /\ Strip(last_message(history).content) = Strip(content)
         THEN history
         ELSE _append(history, "user", content)

append_assistant_if_new(history, content) ==
    IF content = EmptyText THEN history
    ELSE IF last_message(history).role = "assistant"
            /\ Strip(last_message(history).content) = Strip(content)
         THEN history
         ELSE _append(history, "assistant", content)

\* The most recent assistant message, or EmptyText for None.
last_assistant(history) ==
    LET is == {i \in DOMAIN history : history[i].role = "assistant"}
    IN IF is = {} THEN EmptyText
       ELSE history[CHOOSE i \in is : \A j \in is : j <= i].content

\* The content of the last message when it is an assistant message.
LastIfAssistant(history) ==
    IF last_message(history).role = "assistant" THEN last_message(history).content
    ELSE EmptyText

add_seen_paragraphs(seen, paras) == seen \cup {paras[i] : i \in DOMAIN paras}

(***************************************************************************)
(* The response streams of app/api/explain.py                               *)
(***************************************************************************)

Progress(n) == [kind |-> "progress", val |-> n]
Status(line) == [kind |-> "status", val |-> line]
Fragment(para) == [kind |-> "fragment", val |-> para]

Fragments(paras) == [i \in DOMAIN paras |-> Fragment(paras[i])]

\* The progress values a node output can carry.
ProgressValues == {{}, {80}}

Event(etype, name, progress, report) ==
    [event |-> etype, name |-> name, progress |-> progress, final_report |-> report]

NodeStartEvents == {Event("on_node_start", n, {}, EmptyText) : n \in {"experts_model", "router"}}
\* mode_gate returns the state it was given, with the progress of initial_state.
NodeEndEvents ==
    {Event("on_node_end", "router", pr, EmptyText) : pr \in ProgressValues}
        \cup {Event("on_node_end", "mode_gate", {0}, EmptyText)}
        \cup {Event("on_node_end", "synthesis", {}, t) : t \in Texts}
        \cup {Event("on_node_end", "synthesis", {100}, Text(<<<<"z">>>>, FALSE))}

\* The paragraph loop of the handlers. acc = [out, seen, prior]: the paragraphs
\* yielded, seen_paras and prior_paras. dedupe_lines: repeated lines are dropped
\* from the paragraph first; similar: near-duplicates of prior_paras are dropped.
RECURSIVE ParagraphLoop(_, _, _, _)
ParagraphLoop(paras, acc, dedupe_lines, similar) ==
    IF paras = <<>> THEN acc
    ELSE LET p_out == IF dedupe_lines THEN UniqueLines(Head(paras)) ELSE Head(paras)
             skip == \/ p_out \in acc.seen
                     \/ /\ similar
                        /\ \E i \in DOMAIN acc.prior : _too_similar(p_out, acc.prior[i])
             next == IF skip THEN acc
                     ELSE [out |-> Append(acc.out, p_out),
                           seen |-> acc.seen \cup {p_out},
                           prior |-> IF similar THEN Append(acc.prior, p_out)
                                     ELSE acc.prior]
         IN ParagraphLoop(Tail(paras), next, dedupe_lines, similar)

\* What a handler does with a non-empty report text: [out, seen, prior, history,
\* hash]. last: the stored message the chat branch compares the text with.
ReportResult(mode, text, last, placeholder, dedupe_lines, similar) ==
    LET acc0 == [out |-> <<>>, seen |-> seen_paras, prior |-> prior_paras]
        same_chat == last # EmptyText /\ Strip(last) = Strip(text)
        same_hash == m_last_report_hash # EmptyText /\ m_last_report_hash = _hash_text(text)
        loop == ParagraphLoop(Split(text), acc0, dedupe_lines, similar)
    IN IF mode = "chat"
       THEN IF same_chat
            THEN [acc0 EXCEPT !.out = <<placeholder>>]
                     @@ [history |-> m_history, hash |-> m_last_report_hash]
            ELSE loop @@ [history |-> append_assistant_if_new(m_history, text),
                          hash |-> m_last_report_hash]
       ELSE IF same_hash
            THEN [acc0 EXCEPT !.out = <<PH_NoChanges>>]
                     @@ [history |-> m_history, hash |-> _hash_text(text)]
            ELSE loop @@ [history |-> m_history, hash |-> _hash_text(text)]

\* The handler applies a report result: yields `before`, the result's
\* paragraphs, then `after`.
ApplyReport(r, before, after) ==
    /\ x_out' = x_out \o before \o Fragments(r.out) \o after
    /\ streamed_chunks' = streamed_chunks \o r.out
    /\ seen_paras' = r.seen
    /\ prior_paras' = r.prior
    /\ m_history' = r.history
    /\ m_last_report_hash' = r.hash

ReportParagraphs(out) ==
    {out[i].val : i \in {j \in DOMAIN out : out[j].kind = "fragment"}} \ Placeholders

\* explain(): the request's user message goes to memory, then event_stream starts
\* with the first progress marker and its locals.
x_StartExplain ==
    /\ xpc \in {"idle", "done", "crashed"}
    /\ x_turn < MaxTurns
    /\ \E mode \in {"chat", "orchestrator"}, user \in UserTexts :
         /\ x_mode' = mode
         /\ m_history' = append_user(m_history, user)
         /\ seen_paras' = IF mode = "chat" THEN m_seen_paragraphs ELSE {}
    /\ x_handler' = "explain"
    /\ x_earlier' = x_earlier \cup (IF x_mode = "chat" THEN ReportParagraphs(x_out) ELSE {})
    /\ x_out' = <<Progress(5)>>
    /\ sent_report' = FALSE
    /\ streamed_chunks' = <<>>
    /\ prior_paras' = <<>>
    /\ x_text' = EmptyText
    /\ x_event' = NoEvent
    /\ x_executions' = 1
    /\ x_turn' = x_turn + 1
    /\ x_nevents' = 0
    /\ xpc' = "stream"
    /\ UNCHANGED <<llm_available, oVars, expVars, gVars, m_seen_paragraphs, m_last_report_hash,
                   m_last_report_text>>

\* The event loop takes the next event of astream_events.
Receive(e) ==
    /\ xpc = "stream"
    /\ x_nevents < MaxEvents
    /\ x_nevents' = x_nevents + 1
    /\ x_event' = e

ProgressMarkers(e) == IF e.progress = {} THEN <<>>
                      ELSE <<Progress(CHOOSE n \in e.progress : TRUE)>>

StepLogs(e) == IF e.name = "router" THEN <<Status("Router: language detection done.")>>
               ELSE <<>>

x_OnNodeStart ==
    /\ x_handler = "explain"
    /\ \E e \in NodeStartEvents :
         /\ Receive(e)
         /\ x_out' = IF e.name = "experts_model"
                     THEN Append(x_out, Status("Experts reasoning")) ELSE x_out
    /\ x_text' = EmptyText
    /\ UNCHANGED <<llm_available, oVars, expVars, gVars, mVars, xpc, x_handler, x_mode, sent_report,
                   streamed_chunks, seen_paras, prior_paras, x_earlier, x_executions, x_turn>>

x_OnNodeEnd ==
    /\ x_handler = "explain"
    /\ \E e \in NodeEndEvents :
         /\ Receive(e)
         /\ IF e.name = "synthesis" /\ ~sent_report /\ e.final_report # EmptyText
            THEN /\ ApplyReport(ReportResult(x_mode, e.final_report, last_assistant(m_history),
                                             PH_NoNewInsightsAsk, TRUE, TRUE),
                                ProgressMarkers(e), <<>>)
                 /\ sent_report' = TRUE
                 /\ x_text' = e.final_report
            ELSE /\ x_out' = x_out \o ProgressMarkers(e) \o StepLogs(e)
                 /\ x_text' = EmptyText
                 /\ UNCHANGED <<sent_report, streamed_chunks, seen_paras, prior_paras,
                                m_history, m_last_report_hash>>
    /\ UNCHANGED <<llm_available, oVars, expVars, gVars, m_seen_paragraphs, m_last_report_text, xpc,
                   x_handler, x_mode, x_earlier, x_executions, x_turn>>

x_OnEnd ==
    /\ x_handler = "explain"
    /\ Receive(Event("on_end", "graph", {}, EmptyText))
    /\ x_out' = Append(x_out, Progress(100))
    /\ x_text' = EmptyText
    /\ UNCHANGED <<llm_available, oVars, expVars, gVars, mVars, xpc, x_handler, x_mode, sent_report,
                   streamed_chunks, seen_paras, prior_paras, x_earlier, x_executions, x_turn>>

\* An event whose handling raises: the inner except continues with the next one.
x_MalformedEvent ==
    /\ x_handler = "explain"
    /\ Receive(Event("malformed", "none", {}, EmptyText))
    /\ x_text' = EmptyText
    /\ UNCHANGED <<llm_available, oVars, expVars, gVars, mVars, xpc, x_handler, x_mode, sent_report,
                   streamed_chunks, seen_paras, prior_paras, x_out, x_earlier, x_executions,
                   x_turn>>

\* astream_events is exhausted.
x_StreamEnds ==
    /\ x_handler = "explain"
    /\ xpc = "stream"
    /\ xpc' = IF sent_report THEN "persist" ELSE "post"
    /\ x_text' = EmptyText
    /\ UNCHANGED <<llm_available, oVars, expVars, gVars, mVars, x_handler, x_mode, sent_report,
                   streamed_chunks, seen_paras, prior_paras, x_event, x_out, x_earlier,
                   x_executions, x_turn, x_nevents>>

\* astream_events raises, at the first event or after any number of them.
x_StreamRaises ==
    /\ x_handler = "explain"
    /\ xpc = "stream"
    /\ xpc' = "except"
    /\ x_text' = EmptyText
    /\ UNCHANGED <<llm_available, oVars, expVars, gVars, mVars, x_handler, x_mode, sent_report,
                   streamed_chunks, seen_paras, prior_paras, x_event, x_out, x_earlier,
                   x_executions, x_turn, x_nevents>>

\* graph_app.invoke raises in a fallback: the generator ends with the exception.
InvokeRaises ==
    /\ xpc' = "crashed"
    /\ x_executions' = x_executions + 1
    /\ x_text' = EmptyText
    /\ UNCHANGED <<llm_available, oVars, expVars, gVars, mVars, x_handler, x_mode, sent_report,
                   streamed_chunks, seen_paras, prior_paras, x_event, x_out, x_earlier,
                   x_turn, x_nevents>>

\* The except branch of event_stream: one invoke, the report, progress 100 and
\* return, without the persistence block.
x_ExceptFallback ==
    /\ x_handler = "explain"
    /\ xpc = "except"
    /\ \/ \E text \in Texts \cup {EmptyText} :
            /\ x_text' = text
            /\ IF text # EmptyText
               THEN ApplyReport(ReportResult(x_mode, text, last_assistant(m_history),
                                             PH_NoNewInsightsTry, TRUE, x_mode = "chat"),
                                <<>>, <<Progress(100)>>)
               ELSE /\ x_out' = Append(x_out, Progress(100))
                    /\ UNCHANGED <<streamed_chunks, seen_paras, prior_paras, m_history,
                                   m_last_report_hash>>
            /\ x_executions' = x_executions + 1
            /\ xpc' = "done"
            /\ UNCHANGED <<llm_available, oVars, expVars, gVars, m_seen_paragraphs,
                           m_last_report_text, x_handler, x_mode, sent_report, x_event,
                           x_earlier, x_turn, x_nevents>>
       \/ InvokeRaises

\* The block after the loop when no report was sent: one invoke, the report and
\* progress 100.
x_PostStreamFallback ==
    /\ x_handler = "explain"
    /\ xpc = "post"
    /\ \/ \E text \in Texts \cup {EmptyText} :
            /\ x_text' = text
            /\ IF text # EmptyText
               THEN ApplyReport(ReportResult(x_mode, text, LastIfAssistant(m_history),
                                             PH_NoNewInsightsTry, x_mode = "chat", FALSE),
                                <<>>, <<Progress(100)>>)
               ELSE /\ x_out' = Append(x_out, Progress(100))
                    /\ UNCHANGED <<streamed_chunks, seen_paras, prior_paras, m_history,
                                   m_last_report_hash>>
            /\ x_executions' = x_executions + 1
            /\ xpc' = "persist"
            /\ UNCHANGED <<llm_available, oVars, expVars, gVars, m_seen_paragraphs,
                           m_last_report_text, x_handler, x_mode, sent_report, x_event,
                           x_earlier, x_turn, x_nevents>>
       \/ InvokeRaises

\* The persistence block that ends event_stream.
x_Persist ==
    /\ x_handler = "explain"
    /\ xpc = "persist"
    /\ IF streamed_chunks # <<>>
       THEN /\ m_history' = append_assistant_if_new(m_history, Join(streamed_chunks))
            /\ m_seen_paragraphs' = IF x_mode = "chat"
                                    THEN add_seen_paragraphs(m_seen_paragraphs, streamed_chunks)
                                    ELSE m_seen_paragraphs
       ELSE UNCHANGED <<m_history, m_seen_paragraphs>>
    /\ xpc' = "done"
    /\ x_text' = EmptyText
    /\ UNCHANGED <<llm_available, oVars, expVars, gVars, m_last_report_hash, m_last_report_text,
                   x_handler, x_mode, sent_report, streamed_chunks, seen_paras, prior_paras,
                   x_event, x_out, x_earlier, x_executions, x_turn, x_nevents>>

InitExplain ==
    /\ llm_available = FALSE
    /\ ExpertsIdle
    /\ GraphIdle
    /\ StreamIdle
    /\ OthersIdle

NextExplain ==
    \/ x_StartExplain
    \/ x_OnNodeStart
    \/ x_OnNodeEnd
    \/ x_OnEnd
    \/ x_MalformedEvent
    \/ x_StreamEnds
    \/ x_StreamRaises
    \/ x_ExceptFallback
    \/ x_PostStreamFallback
    \/ x_Persist

SpecExplain == InitExplain /\ [][NextExplain]_vars

\* ConversationMemory.set_analysis, on the report text and its hash.
set_analysis(text) ==
    /\ m_last_report_text' = Strip(text)
    /\ m_last_report_hash' = IF Strip(text) # EmptyText THEN _hash_text(Strip(text))
                             ELSE m_last_report_hash

\* analyze(): event_stream starts with the first progress marker.
a_StartAnalyze ==
    /\ xpc \in {"idle", "done", "crashed"}
    /\ x_turn < MaxTurns
    /\ x_handler' = "analyze"
    /\ x_mode' = "orchestrator"
    /\ x_out' = <<Progress(5)>>
    /\ streamed_chunks' = <<>>
    /\ x_text' = EmptyText
    /\ x_event' = NoEvent
    /\ x_executions' = 1
    /\ x_turn' = x_turn + 1
    /\ x_nevents' = 0
    /\ xpc' = "stream"
    /\ UNCHANGED <<llm_available, oVars, expVars, gVars, mVars, sent_report, seen_paras, prior_paras,
                   x_earlier>>

a_OnNodeStart ==
    /\ x_handler = "analyze"
    /\ \E e \in NodeStartEvents :
         /\ Receive(e)
         /\ x_out' = IF e.name = "experts_model"
                     THEN Append(x_out, Status("Experts reasoning")) ELSE x_out
    /\ x_text' = EmptyText
    /\ UNCHANGED <<llm_available, oVars, expVars, gVars, mVars, xpc, x_handler, x_mode, sent_report,
                   streamed_chunks, seen_paras, prior_paras, x_earlier, x_executions, x_turn>>

a_OnNodeEnd ==
    /\ x_handler = "analyze"
    /\ \E e \in NodeEndEvents :
         /\ Receive(e)
         /\ x_text' = IF e.name = "synthesis" THEN e.final_report ELSE EmptyText
         /\ x_out' = x_out \o ProgressMarkers(e) \o StepLogs(e)
                       \o (IF e.name = "synthesis" THEN Fragments(Split(e.final_report))
                           ELSE <<>>)
         /\ streamed_chunks' = IF e.name = "synthesis"
                               THEN streamed_chunks \o Split(e.final_report)
                               ELSE streamed_chunks
    /\ UNCHANGED <<llm_available, oVars, expVars, gVars, mVars, xpc, x_handler, x_mode, sent_report,
                   seen_paras, prior_paras, x_earlier, x_executions, x_turn>>

\* astream_events is exhausted: the handler goes on to its invoke.
a_StreamEnds ==
    /\ x_handler = "analyze"
    /\ xpc = "stream"
    /\ xpc' = "final"
    /\ x_text' = EmptyText
    /\ UNCHANGED <<llm_available, oVars, expVars, gVars, mVars, x_handler, x_mode, sent_report,
                   streamed_chunks, seen_paras, prior_paras, x_event, x_out, x_earlier,
                   x_executions, x_turn, x_nevents>>

\* astream_events, or the handling of an event, raises.
a_StreamRaises ==
    /\ x_handler = "analyze"
    /\ xpc = "stream"
    /\ xpc' = "except"
    /\ x_text' = EmptyText
    /\ UNCHANGED <<llm_available, oVars, expVars, gVars, mVars, x_handler, x_mode, sent_report,
                   streamed_chunks, seen_paras, prior_paras, x_event, x_out, x_earlier,
                   x_executions, x_turn, x_nevents>>

\* The invoke after the event loop, the report when nothing was streamed, the
\* analysis is stored, progress 100; an invoke that raises enters the except
\* branch.
a_FinalInvoke ==
    /\ x_handler = "analyze"
    /\ xpc = "final"
    /\ x_executions' = x_executions + 1
    /\ \/ \E final_report \in Texts \cup {EmptyText} :
            LET text == IF final_report # EmptyText THEN final_report
                        ELSE Join(streamed_chunks)
                paras == IF streamed_chunks = <<>> THEN Split(text) ELSE <<>>
            IN /\ x_text' = text
               /\ x_out' = x_out \o Fragments(paras) \o <<Progress(100)>>
               /\ streamed_chunks' = streamed_chunks \o paras
               /\ set_analysis(text)
               /\ xpc' = "done"
       \/ /\ xpc' = "except"
          /\ x_text' = EmptyText
          /\ UNCHANGED <<x_out, streamed_chunks, m_last_report_hash, m_last_report_text>>
    /\ UNCHANGED <<llm_available, oVars, expVars, gVars, m_history, m_seen_paragraphs, x_handler,
                   x_mode, sent_report, seen_paras, prior_paras, x_event, x_earlier, x_turn,
                   x_nevents>>

\* The except branch: another invoke, the report, the analysis is stored,
\* progress 100.
a_ExceptFallback ==
    /\ x_handler = "analyze"
    /\ xpc = "except"
    /\ \/ \E text \in Texts \cup {EmptyText} :
            /\ x_text' = text
            /\ x_out' = x_out \o Fragments(Split(text)) \o <<Progress(100)>>
            /\ streamed_chunks' = streamed_chunks \o Split(text)
            /\ set_analysis(IF text # EmptyText THEN text
                            ELSE Join(streamed_chunks \o Split(text)))
            /\ x_executions' = x_executions + 1
            /\ xpc' = "done"
            /\ UNCHANGED <<llm_available, oVars, expVars, gVars, m_history, m_seen_paragraphs,
                           x_handler, x_mode, sent_report, seen_paras, prior_paras, x_event,
                           x_earlier, x_turn, x_nevents>>
       \/ InvokeRaises

InitAnalyze ==
    /\ llm_available = FALSE
    /\ ExpertsIdle
    /\ GraphIdle
    /\ StreamIdle
    /\ OthersIdle

NextAnalyze ==
    \/ a_StartAnalyze
    \/ a_OnNodeStart
    \/ a_OnNodeEnd
    \/ a_StreamEnds
    \/ a_StreamRaises
    \/ a_FinalInvoke
    \/ a_ExceptFallback

SpecAnalyze == InitAnalyze /\ [][NextAnalyze]_vars

(***************************************************************************)
(* Claims about the response streams                                        *)
(***************************************************************************)

\* The response has ended: the generator returned or an exception left it.
StreamOver == xpc \in {"done", "crashed"}

IsFinalMarker(item) == item.kind = "progress" /\ item.val = 100

FragmentsOf(out) == SelectSeq(out, LAMBDA item : item.kind = "fragment")

\* C6: every /explain response stream ends with the progress 100 marker and
\* carries no report fragment after a progress 100 marker, whatever the events are
\* and wherever the event source raises.
C6_EndsWithFinalMarker ==
    /\ StreamOver => x_out # <<>> /\ IsFinalMarker(x_out[Len(x_out)])
    /\ \A i, j \in DOMAIN x_out :
         i < j /\ IsFinalMarker(x_out[i]) => x_out[j].kind # "fragment"

\* C7: no request executes the graph more than twice (the streamed run and at
\* most one blocking fallback), and a response whose events brought no report has
\* run exactly one fallback when it completes.
C7_AtMostOneFallback ==
    /\ x_executions <= 2
    /\ xpc = "done" /\ ~sent_report => x_executions = 2

\* C8: every request has yielded at least one content fragment (a paragraph or a
\* placeholder) when its stream ends, whatever the events and failures are.
C8_SomeFragment == StreamOver => FragmentsOf(x_out) # <<>>

\* The fragments the step adds to the response.
NewFragments == FragmentsOf(SubSeq(x_out', Len(x_out) + 1, Len(x_out')))

\* The step handles a chat reply equal, after trimming, to the most recent
\* assistant message of the thread.
HandlesRepeatedReply ==
    /\ xpc \in {"stream", "except", "post"}
    /\ x_mode = "chat"
    /\ x_text' # EmptyText
    /\ last_assistant(m_history) # EmptyText
    /\ Strip(x_text') = Strip(last_assistant(m_history))

\* C9: in chat mode a reply equal to the most recent assistant message of the
\* thread is answered by exactly one "no new insights" placeholder and none of its
\* paragraphs, on the event path and on both fallback paths.
C9_RepeatedReplyGetsOnePlaceholder ==
    [][HandlesRepeatedReply =>
          /\ Len(NewFragments) = 1
          /\ NewFragments[1].val \in {PH_NoNewInsightsAsk, PH_NoNewInsightsTry}
          /\ \A i \in DOMAIN x_out :
               x_out[i].kind = "fragment" => x_out[i].val \notin Placeholders]_vars

\* C10: no report paragraph is emitted twice within one response, and in chat mode
\* no paragraph of an earlier chat turn of the thread is emitted again.
C10_NoParagraphTwice ==
    /\ \A i, j \in DOMAIN FragmentsOf(x_out) :
         i # j /\ FragmentsOf(x_out)[i].val \notin Placeholders
             => FragmentsOf(x_out)[i].val # FragmentsOf(x_out)[j].val
    /\ x_mode = "chat" => ReportParagraphs(x_out) \cap x_earlier = {}

\* C11: a report paragraph whose token-set Jaccard similarity with a paragraph
\* emitted earlier in the same response is at least 0.85 is not emitted, on every
\* path that emits report paragraphs and in both modes.
C11_NearDuplicateSuppressed ==
    \A i, j \in DOMAIN FragmentsOf(x_out) :
        (/\ i < j
         /\ FragmentsOf(x_out)[i].val \notin Placeholders
         /\ FragmentsOf(x_out)[j].val \notin Placeholders)
            => ~_too_similar(FragmentsOf(x_out)[j].val, FragmentsOf(x_out)[i].val)

(***************************************************************************)
(* MemorySemanticCache of graph/memory/semantic_cache.py                    *)
(***************************************************************************)

\* The cap on a namespace and the number of items one eviction removes.
CacheCap == 512
EvictBatch == 64

\* Clock ticks in one second of int(time.time()).
TicksPerSecond == 2
\* Latest clock value.
MaxTicks == 2
\* Calls of set.
MaxSets == 2

\* The queries, with "xy" shorter than one 3-gram.
Queries == {"qa", "qc", "xy"}
CacheValues == {"v1", "v2"}
\* min_score values, in hundredths.
MinScores == {0, 93}

\* Embedder.embed, as vectors of equal length and, but for the query without a
\* 3-gram, of equal norm.
embed(query) ==
    CASE query = "qa" -> <<5, 0>>
      [] query = "qc" -> <<4, 3>>
      [] OTHER -> <<0, 0>>

RECURSIVE Dot(_, _)
Dot(a, b) == IF a = <<>> THEN 0 ELSE Head(a) * Head(b) + Dot(Tail(a), Tail(b))

\* math.sqrt(sum(x * x for x in a)) or 1.0
VecNorm(a) ==
    LET r == CHOOSE n \in 0..Dot(a, a) : n * n = Dot(a, a)
    IN IF r = 0 THEN 1 ELSE r

\* cosine(a, b), in hundredths.
cosine(a, b) ==
    IF a = <<>> \/ b = <<>> \/ Len(a) # Len(b) THEN 0
    ELSE (100 * Dot(a, b)) \div (VecNorm(a) * VecNorm(b))

CacheItem(key, embedding, value, ts) ==
    [key |-> key, embedding |-> embedding, value |-> value, ts |-> ts]

\* A namespace that earlier calls filled with n items, one a second.
PrefilledNamespace(n) ==
    [i \in 1..n |-> CacheItem(<<"qa", i - n - 1>>, embed("qa"), "v1",
                              (i - n - 1) * TicksPerSecond)]

\* The loop of get over ns.items(), which starts from best = (None, 0.0) and
\* replaces it by an item of strictly higher score: it ends at the first item
\* (named by its position) of the highest score, when that score is above 0.
BestOf(ns, qv) ==
    LET scores == {cosine(qv, ns[i].embedding) : i \in DOMAIN ns}
        high == CHOOSE sc \in scores : \A other \in scores : other <= sc
        top == CHOOSE i \in DOMAIN ns :
                   /\ cosine(qv, ns[i].embedding) = high
                   /\ \A j \in 1..(i - 1) : cosine(qv, ns[j].embedding) # high
    IN IF high > 0 THEN [found |-> TRUE, at |-> top, score |-> high]
       ELSE [found |-> FALSE, at |-> 0, score |-> 0]

Miss == [hit |-> FALSE, score |-> 0, value |-> NoValue]

\* MemorySemanticCache.get
get(ns, query, min_score) ==
    IF ns = <<>> THEN Miss
    ELSE LET best == BestOf(ns, embed(query))
         IN IF ~best.found \/ best.score < min_score THEN Miss
            ELSE [hit |-> TRUE, score |-> best.score, value |-> ns[best.at].value]

\* ns[key] = item: an existing key keeps its place in the dict.
PutItem(ns, item) ==
    IF \E i \in DOMAIN ns : ns[i].key = item.key
    THEN [i \in DOMAIN ns |-> IF ns[i].key = item.key THEN item ELSE ns[i]]
    ELSE Append(ns, item)

\* The place of item i in sorted(ns.values(), key=ts), counted from 0.
SortedPlace(ns, i) ==
    Cardinality({j \in DOMAIN ns : ns[j].ts < ns[i].ts \/ (ns[j].ts = ns[i].ts /\ j < i)})

\* The items set removes: the first EvictBatch of the sort by ts.
OldestNewestFirst(ns) == {i \in DOMAIN ns : SortedPlace(ns, i) >= Len(ns) - EvictBatch}
Oldest(ns) == {i \in DOMAIN ns : SortedPlace(ns, i) < EvictBatch}

\* ns.pop(it.key) for the items at the positions `removed`.
PopAll(ns, removed) ==
    LET tagged == [i \in DOMAIN ns |-> [item |-> ns[i], popped |-> i \in removed]]
        kept == SelectSeq(tagged, LAMBDA t : ~t.popped)
    IN [i \in DOMAIN kept |-> kept[i].item]

CapNamespace(ns) == IF Len(ns) > CacheCap THEN PopAll(ns, Oldest(ns)) ELSE ns

\* MemorySemanticCache.set: the key takes the second of the first clock reading,
\* the item the time of the second reading.
cache_set ==
    /\ c_nsets < MaxSets
    /\ \E query \in Queries, value \in CacheValues, namespace \in Namespaces,
          ts \in c_clock..Min(c_clock + 1, MaxTicks) :
         LET key == <<query, c_clock \div TicksPerSecond>>
             item == CacheItem(key, embed(query), value, ts)
         IN /\ c_store' = [c_store EXCEPT
                             ![namespace] = CapNamespace(PutItem(c_store[namespace], item))]
            /\ c_clock' = ts
            /\ c_last' = [op |-> "set", namespace |-> namespace, key |-> key,
                          before |-> Len(c_store[namespace])]
    /\ c_nsets' = c_nsets + 1
    /\ UNCHANGED <<llm_available, hVars, expVars, gVars, mVars, xVars, sVars, kVars>>

cache_get ==
    /\ \E query \in Queries, namespace \in Namespaces, min_score \in MinScores :
         c_last' = [op |-> "get", query |-> query, namespace |-> namespace,
                    min_score |-> min_score,
                    result |-> get(c_store[namespace], query, min_score)]
    /\ UNCHANGED <<llm_available, hVars, expVars, gVars, mVars, xVars, sVars, kVars, c_store, c_clock, c_nsets>>

\* Time passes between two calls.
cache_Tick ==
    /\ c_clock < MaxTicks
    /\ c_clock' = c_clock + 1
    /\ UNCHANGED <<llm_available, hVars, expVars, gVars, mVars, xVars, sVars, kVars, c_store, c_last, c_nsets>>

InitCache ==
    /\ llm_available = FALSE
    /\ ExpertsIdle
    /\ GraphIdle
    /\ StreamIdle
    /\ CacheIdle
    /\ SynthesisIdle
    /\ BuildIdle
    /\ CheckpointIdle
    /\ HandlersIdle

NextCache ==
    \/ cache_set
    \/ cache_get
    \/ cache_Tick

SpecCache == InitCache /\ [][NextCache]_vars

\* A cache whose "experts" namespace is one item short of its cap, and the calls
\* of set on it.
InitCacheFull ==
    /\ llm_available = FALSE
    /\ ExpertsIdle
    /\ GraphIdle
    /\ StreamIdle
    /\ c_store = [ns \in Namespaces |-> IF ns = "experts"
                                        THEN PrefilledNamespace(CacheCap - 1) ELSE <<>>]
    /\ c_clock = 0
    /\ c_last = NoCall
    /\ c_nsets = 0
    /\ SynthesisIdle
    /\ BuildIdle
    /\ CheckpointIdle
    /\ HandlersIdle

NextCacheFull ==
    \/ cache_set
    \/ cache_Tick

SpecCacheFull == InitCacheFull /\ [][NextCacheFull]_vars

\* The highest similarity of the query to an item of the namespace.
HighestScore(ns, query) ==
    CHOOSE sc \in {cosine(embed(query), ns[i].embedding) : i \in DOMAIN ns} :
        \A i \in DOMAIN ns : cosine(embed(query), ns[i].embedding) <= sc

\* C12: get returns the value of the namespace's item most similar to the query,
\* with that score, exactly when that score is at least min_score, and a miss
\* exactly when it is below.
C12_GetReturnsBestAboveMinScore ==
    c_last.op = "get" =>
        LET ns == c_store[c_last.namespace]
            r == c_last.result
        IN IF ns # <<>> /\ HighestScore(ns, c_last.query) >= c_last.min_score
           THEN /\ r.hit
                /\ r.score = HighestScore(ns, c_last.query)
                /\ \E i \in DOMAIN ns :
                     /\ cosine(embed(c_last.query), ns[i].embedding) = r.score
                     /\ ns[i].value = r.value
           ELSE ~r.hit

KeysOf(ns) == {ns[i].key : i \in DOMAIN ns}
ItemsOf(ns) == {ns[i] : i \in DOMAIN ns}

\* The step shrinks the namespace: the 64 items that leave are the oldest by
\* timestamp, and the namespace held the cap before.
EvictsOldest(old, new) ==
    LET removed == {it \in ItemsOf(old) : it.key \notin KeysOf(new)}
    IN /\ Len(old) = CacheCap
       /\ Len(new) = CacheCap + 1 - EvictBatch
       /\ Cardinality(removed) = EvictBatch
       /\ \A r \in removed : \A k \in ItemsOf(new) : r.ts <= k.ts

\* C13: every namespace holds at most 512 items after any sequence of set calls;
\* the set that raises the size to 513 removes the 64 items of the oldest
\* timestamps in the same call, and the item just stored is never removed.
C13_CapAndBulkEviction ==
    /\ [](\A ns \in Namespaces : Len(c_store[ns]) <= CacheCap)
    /\ [](c_last.op = "set" => c_last.key \in KeysOf(c_store[c_last.namespace]))
    /\ [][\A ns \in Namespaces :
            /\ Len(c_store'[ns]) < Len(c_store[ns]) => EvictsOldest(c_store[ns], c_store'[ns])
            /\ (/\ Len(c_store[ns]) = CacheCap
                /\ c_last'.op = "set"
                /\ c_last'.namespace = ns
                /\ c_nsets' # c_nsets
                /\ c_last'.key \notin KeysOf(c_store[ns]))
                   => Len(c_store'[ns]) < Len(c_store[ns])]_vars

\* A set has just pushed a full namespace over the cap and evicted.
C13_Witness ==
    /\ c_last.op = "set"
    /\ c_last.before = CacheCap
    /\ Len(c_store[c_last.namespace]) = CacheCap + 1 - EvictBatch
    /\ c_last.key \in KeysOf(c_store[c_last.namespace])

\* The update synthesis_node has returned in the current step.
SynthesisReturned == "synthesis" \in g_done
CacheFailed == syn_cache.lookup \in {"raises", "miss", "malformed"}

Lower(str) ==
    CASE str = "TRUE" -> "true"
      [] str = "Yes" -> "yes"
      [] str = "SQLite" -> "sqlite"
      [] str = "SQLITE" -> "sqlite"
      [] OTHER -> str

\* The environments: the two variables, what importing and constructing the
\* SQLite saver gives, whether MemorySaver can be imported, and whether compile
\* accepts the checkpointer.
Environments ==
    [LANGGRAPH_CHECKPOINTER : {"0", "1", "TRUE", "Yes", "no"},
     LANGGRAPH_CHECKPOINTER_BACKEND : {"memory", "sqlite", "SQLITE", "redis"},
     SqliteSaver : {"unavailable", "construct_fails", "no_get_next_version", "ok"},
     MemorySaver : {"unavailable", "ok"},
     compile_with : {"ok", "raises"}]

Returned(cp) == [raised |-> FALSE, cp |-> cp]
Raised == [raised |-> TRUE, cp |-> "none"]

\* get_checkpointer without its try block: a failing SQLite saver propagates.
get_checkpointerUnguarded(env) ==
    IF env.SqliteSaver = "ok" THEN Returned("sqlite")
    ELSE IF env.SqliteSaver \in {"construct_fails", "no_get_next_version"} THEN Raised
    ELSE IF env.MemorySaver = "unavailable" THEN Raised
    ELSE Returned("memory")

get_checkpointer(env) ==
    IF env.SqliteSaver = "ok" THEN Returned("sqlite")
    ELSE IF env.MemorySaver = "unavailable" THEN Raised
    ELSE Returned("memory")

\* build_graph, from the checkpointer wiring on: the checkpointer the compiled app
\* has, and whether an exception left the function.
build_graph(env) ==
    LET use_checkpointer == Lower(env.LANGGRAPH_CHECKPOINTER) \in {"1", "true", "yes"}
        backend_pref == Lower(env.LANGGRAPH_CHECKPOINTER_BACKEND)
        chosen == IF backend_pref = "sqlite" THEN get_checkpointer(env)
                  ELSE IF env.MemorySaver = "unavailable" THEN Raised
                  ELSE Returned("memory")
    IN IF ~use_checkpointer THEN [built |-> TRUE, raised |-> FALSE, checkpointer |-> "none"]
       ELSE IF chosen.raised \/ env.compile_with = "raises"
            THEN [built |-> TRUE, raised |-> FALSE, checkpointer |-> "none"]
            ELSE [built |-> TRUE, raised |-> FALSE, checkpointer |-> chosen.cp]

k_build_graph ==
    /\ ~k_app.built
    /\ k_app' = build_graph(k_env)
    /\ UNCHANGED <<llm_available, hVars, expVars, gVars, mVars, xVars, cVars, sVars, k_env,
                   k_checkpointer, k_checkpoints>>

InitBuild ==
    /\ llm_available = FALSE
    /\ ExpertsIdle
    /\ GraphIdle
    /\ StreamIdle
    /\ CacheIdle
    /\ SynthesisIdle
    /\ CheckpointIdle
    /\ HandlersIdle
    /\ k_env \in Environments
    /\ k_app = NotBuilt

NextBuild == k_build_graph

SpecBuild == InitBuild /\ [][NextBuild]_vars

CheckpointerWanted == Lower(k_env.LANGGRAPH_CHECKPOINTER) \in {"1", "true", "yes"}
SqliteWanted == Lower(k_env.LANGGRAPH_CHECKPOINTER_BACKEND) = "sqlite"

C16_OneCheckpointAtPersist ==
    k_checkpointer # "none" =>
        /\ Len(k_checkpoints) <= 1
        /\ \A i \in DOMAIN k_checkpoints : k_checkpoints[i] = {"persist"}
        /\ (g_ended => Len(k_checkpoints) = 1)

(***************************************************************************)
(* The /chat response stream (app/api/routes.py, stream_chat)               *)
(***************************************************************************)

\* Events one astream_events run of /chat delivers before it ends or raises.
MaxChatEvents == 2

Done == [kind |-> "done", val |-> 0]
ErrorItem == [kind |-> "error", val |-> 0]

\* A chunk's content: a string, or a value that is no string (a list of blocks).
StrContent(text) == [str |-> TRUE, text |-> text]
ListContent == [str |-> FALSE, text |-> Text(<<<<"tok">>>>, FALSE)]
ChunkContents == {StrContent(EmptyText), StrContent(Text(<<<<"tok">>>>, FALSE)), ListContent}

TruthyContent(content) == ~content.str \/ content.text # EmptyText

\* The chat_response values an output can carry; EmptyText stands for None.
ChatResponses == {EmptyText, Text(<<>>, TRUE), Text(<<<<"z">>>>, FALSE),
                  Text(<<<<"y">>, <<"z">>>>, FALSE)}

SorryText == Text(<<<<"Sorry, I encountered an error generating a response.">>>>, FALSE)
NoResponseText == Text(<<<<"No response generated.">>>>, FALSE)

AllStr(chunks) == \A i \in DOMAIN chunks : chunks[i].str

\* "".join(chunks), as the sequence of the joined strings.
JoinChunks(chunks) == [i \in DOMAIN chunks |-> chunks[i].text]

\* _append_chunk: the new chunks and final_reply_text, and whether join raised.
_append_chunk(chunks, final_reply_text, content) ==
    IF ~TruthyContent(content)
    THEN [chunks |-> chunks, final_reply_text |-> final_reply_text, raised |-> FALSE]
    ELSE LET cs == Append(chunks, content)
         IN IF AllStr(cs)
            THEN [chunks |-> cs,
                  final_reply_text |-> [set |-> TRUE, parts |-> JoinChunks(cs)],
                  raised |-> FALSE]
            ELSE [chunks |-> cs, final_reply_text |-> final_reply_text, raised |-> TRUE]

RepoOutcomes == {"ok", "add_raises", "update_raises"}

\* _persist_assistant_reply: the new persisted flag and stored messages.
_persist_assistant_reply(persisted, final_reply_text, chunks, repo, outcome) ==
    LET same == [persisted |-> persisted, repo |-> repo]
    IN IF persisted THEN same
       ELSE IF ~final_reply_text.set /\ ~AllStr(chunks) THEN same
       ELSE LET parts == IF final_reply_text.set THEN final_reply_text.parts
                         ELSE JoinChunks(chunks)
                blank == \A i \in DOMAIN parts : parts[i].ps = <<>>
            IN IF blank THEN [persisted |-> TRUE, repo |-> repo]
               ELSE CASE outcome = "add_raises" -> same
                      [] outcome = "update_raises" ->
                           [persisted |-> persisted, repo |-> Append(repo, parts)]
                      [] OTHER -> [persisted |-> TRUE, repo |-> Append(repo, parts)]

ChatEvent(etype, name, content, response) ==
    [event |-> etype, name |-> name, content |-> content, chat_response |-> response]

ChatModelStreamEvents ==
    {ChatEvent("on_chat_model_stream", n, c, EmptyText) :
        n \in {"chat_reply", "ChatOpenAI"}, c \in ChunkContents}
ChatNodeEndEvents ==
    {ChatEvent("on_node_end", "chat_reply", StrContent(EmptyText), r) : r \in ChatResponses}
ChatGraphEndEvents ==
    {ChatEvent("on_graph_end", "LangGraph", StrContent(EmptyText), r) : r \in ChatResponses}
ChatOtherEvents ==
    {ChatEvent("on_chain_end", "chat_reply", StrContent(EmptyText), r) : r \in ChatResponses}

wUnchanged ==
    UNCHANGED <<llm_available, expVars, gVars, mVars, xVars, cVars, sVars, kVars, rVars,
                qVars, nVars, tVars>>

h_Start ==
    /\ h_pc = "idle"
    /\ h_pc' = "events"
    /\ h_out' = <<Progress(5)>>
    /\ UNCHANGED <<h_chunks, h_final_reply_text, h_persisted, h_repo, h_nevents, wVars>>
    /\ wUnchanged

\* A token of the reply: appended to chunks, then yielded.
h_OnChatModelStream ==
    /\ h_pc = "events"
    /\ h_nevents < MaxChatEvents
    /\ \E ev \in ChatModelStreamEvents :
         LET take == ev.name = "chat_reply" /\ TruthyContent(ev.content)
             r == _append_chunk(h_chunks, h_final_reply_text, ev.content)
         IN IF ~take
            THEN UNCHANGED <<h_pc, h_out, h_chunks, h_final_reply_text>>
            ELSE /\ h_chunks' = r.chunks
                 /\ h_final_reply_text' = r.final_reply_text
                 /\ h_pc' = IF r.raised THEN "except" ELSE "events"
                 /\ h_out' = IF r.raised THEN h_out
                             ELSE Append(h_out, Fragment(ev.content.text.ps[1]))
    /\ h_nevents' = h_nevents + 1
    /\ UNCHANGED <<h_persisted, h_repo, wVars>>
    /\ wUnchanged

\* The reply of a node or of the graph, taken when no token was streamed.
TakeResponse(ev, outcome) ==
    LET text == ev.chat_response
        take == text # EmptyText /\ h_chunks = <<>>
        r == IF take THEN _append_chunk(h_chunks, h_final_reply_text, StrContent(text))
             ELSE [chunks |-> h_chunks, final_reply_text |-> h_final_reply_text,
                   raised |-> FALSE]
        p == _persist_assistant_reply(h_persisted, r.final_reply_text, r.chunks,
                                      h_repo, outcome)
    IN /\ h_out' = IF take THEN h_out \o Fragments(Split(text)) ELSE h_out
       /\ h_chunks' = r.chunks
       /\ h_final_reply_text' = r.final_reply_text
       /\ h_persisted' = p.persisted
       /\ h_repo' = p.repo

h_OnNodeEnd ==
    /\ h_pc = "events"
    /\ h_nevents < MaxChatEvents
    /\ \E ev \in ChatNodeEndEvents, outcome \in RepoOutcomes : TakeResponse(ev, outcome)
    /\ h_nevents' = h_nevents + 1
    /\ UNCHANGED <<h_pc, wVars>>
    /\ wUnchanged

h_OnGraphEnd ==
    /\ h_pc = "events"
    /\ h_nevents < MaxChatEvents
    /\ \E ev \in ChatGraphEndEvents, outcome \in RepoOutcomes :
         IF h_chunks = <<>> THEN TakeResponse(ev, outcome)
         ELSE UNCHANGED <<h_out, h_chunks, h_final_reply_text, h_persisted, h_repo>>
    /\ h_nevents' = h_nevents + 1
    /\ UNCHANGED <<h_pc, wVars>>
    /\ wUnchanged

h_OtherEvent ==
    /\ h_pc = "events"
    /\ h_nevents < MaxChatEvents
    /\ \E ev \in ChatOtherEvents : TRUE
    /\ h_nevents' = h_nevents + 1
    /\ UNCHANGED <<h_pc, h_out, h_chunks, h_final_reply_text, h_persisted, h_repo, wVars>>
    /\ wUnchanged

h_StreamEnds ==
    /\ h_pc = "events"
    /\ h_pc' = "invoke"
    /\ UNCHANGED <<h_out, h_chunks, h_final_reply_text, h_persisted, h_repo, h_nevents, wVars>>
    /\ wUnchanged

h_StreamRaises ==
    /\ h_pc = "events"
    /\ h_pc' = "except"
    /\ UNCHANGED <<h_out, h_chunks, h_final_reply_text, h_persisted, h_repo, h_nevents, wVars>>
    /\ wUnchanged

\* except Exception: the apology is yielded and appended to chunks; an error of
\* _append_chunk here leaves the generator.
h_Except ==
    /\ h_pc = "except"
    /\ LET r == _append_chunk(h_chunks, h_final_reply_text, StrContent(SorryText))
       IN /\ h_out' = h_out \o Fragments(Split(SorryText))
          /\ h_chunks' = r.chunks
          /\ h_final_reply_text' = r.final_reply_text
          /\ h_pc' = IF r.raised THEN "raised" ELSE "invoke"
    /\ UNCHANGED <<h_persisted, h_repo, h_nevents, wVars>>
    /\ wUnchanged

\* if not chunks: one ainvoke, whose error is logged.
h_FinalInvoke ==
    /\ h_pc = "invoke"
    /\ IF h_chunks # <<>>
       THEN UNCHANGED <<h_out, h_chunks, h_final_reply_text, h_persisted, h_repo>>
       ELSE \/ UNCHANGED <<h_out, h_chunks, h_final_reply_text, h_persisted, h_repo>>
            \/ \E r \in ChatResponses, outcome \in RepoOutcomes :
                 TakeResponse(ChatEvent("ainvoke", "graph", StrContent(EmptyText), r), outcome)
    /\ h_pc' = "finish"
    /\ UNCHANGED <<h_nevents, wVars>>
    /\ wUnchanged

\* The absolute fallback when chunks is still empty, then the closing markers.
h_Finish ==
    /\ h_pc = "finish"
    /\ \E outcome \in RepoOutcomes :
         LET absolute == h_chunks = <<>>
             r == IF absolute
                  THEN _append_chunk(h_chunks, h_final_reply_text, StrContent(NoResponseText))
                  ELSE [chunks |-> h_chunks, final_reply_text |-> h_final_reply_text,
                        raised |-> FALSE]
             p == IF absolute
                  THEN _persist_assistant_reply(h_persisted, r.final_reply_text, r.chunks,
                                                h_repo, outcome)
                  ELSE [persisted |-> h_persisted, repo |-> h_repo]
         IN /\ h_out' = (IF absolute THEN h_out \o Fragments(Split(NoResponseText))
                         ELSE h_out) \o <<Progress(100), Done>>
            /\ h_chunks' = r.chunks
            /\ h_final_reply_text' = r.final_reply_text
            /\ h_persisted' = p.persisted
            /\ h_repo' = p.repo
    /\ h_pc' = "done"
    /\ UNCHANGED <<h_nevents, wVars>>
    /\ wUnchanged

NextChat ==
    \/ h_Start
    \/ h_OnChatModelStream
    \/ h_OnNodeEnd
    \/ h_OnGraphEnd
    \/ h_OtherEvent
    \/ h_StreamEnds
    \/ h_StreamRaises
    \/ h_Except
    \/ h_FinalInvoke
    \/ h_Finish

(***************************************************************************)
(* The run_graph_stream task (app/workers/tasks.py)                         *)
(***************************************************************************)

\* Events one stream_events run of the task delivers before it ends or raises.
MaxWorkerEvents == 2

WorkerReports == {EmptyText, Text(<<>>, TRUE), Text(<<<<"y">>, <<"z">>>>, FALSE)}

WorkerEvent(etype, name, progress, report) ==
    [event |-> etype, name |-> name, progress |-> progress, final_report |-> report]

WorkerNodeStartEvents ==
    {WorkerEvent("on_node_start", n, {}, EmptyText) : n \in {"experts_model", "router"}}
WorkerNodeEndEvents ==
    {WorkerEvent("on_node_end", "router", pr, EmptyText) : pr \in ProgressValues}
        \cup {WorkerEvent("on_node_end", "synthesis", {}, t) : t \in WorkerReports}
WorkerChainEndEvents ==
    {WorkerEvent("on_chain_end", "LangGraph", {}, t) : t \in WorkerReports}

hUnchanged == UNCHANGED <<llm_available, expVars, gVars, mVars, xVars, cVars, sVars, kVars,
                          chatVars, rVars, qVars, nVars, tVars>>

\* The task up to its first message: the graph is built, Redis connected and
\* progress 5 published.
w_Start ==
    /\ w_pc = "idle"
    /\ w_pc' = "events"
    /\ w_pub' = <<Progress(5)>>
    /\ UNCHANGED <<w_final_state, w_sent_report, w_nevents>>
    /\ hUnchanged

\* import redis fails: RuntimeError before anything is published.
w_SetupRaises ==
    /\ w_pc = "idle"
    /\ w_pc' = "raised"
    /\ UNCHANGED <<w_pub, w_final_state, w_sent_report, w_nevents>>
    /\ hUnchanged

w_OnNodeStart ==
    /\ w_pc = "events"
    /\ w_nevents < MaxWorkerEvents
    /\ \E ev \in WorkerNodeStartEvents :
         w_pub' = IF ev.name = "experts_model"
                  THEN Append(w_pub, Status("Experts reasoning"))
                  ELSE w_pub
    /\ w_nevents' = w_nevents + 1
    /\ UNCHANGED <<w_pc, w_final_state, w_sent_report>>
    /\ hUnchanged

w_OnNodeEnd ==
    /\ w_pc = "events"
    /\ w_nevents < MaxWorkerEvents
    /\ \E ev \in WorkerNodeEndEvents :
         LET report == ev.name = "synthesis" /\ ev.final_report # EmptyText
         IN /\ w_pub' = w_pub \o ProgressMarkers(ev) \o StepLogs(ev)
                          \o (IF report THEN Fragments(Split(ev.final_report)) ELSE <<>>)
            /\ w_sent_report' = (w_sent_report \/ report)
    /\ w_nevents' = w_nevents + 1
    /\ UNCHANGED <<w_pc, w_final_state>>
    /\ hUnchanged

w_OnEnd ==
    /\ w_pc = "events"
    /\ w_nevents < MaxWorkerEvents
    /\ w_pub' = Append(w_pub, Progress(100))
    /\ w_nevents' = w_nevents + 1
    /\ UNCHANGED <<w_pc, w_final_state, w_sent_report>>
    /\ hUnchanged

w_OnChainEnd ==
    /\ w_pc = "events"
    /\ w_nevents < MaxWorkerEvents
    /\ \E ev \in WorkerChainEndEvents :
         w_final_state' = [set |-> TRUE, final_report |-> ev.final_report]
    /\ w_nevents' = w_nevents + 1
    /\ UNCHANGED <<w_pc, w_pub, w_sent_report>>
    /\ hUnchanged

w_StreamEnds ==
    /\ w_pc = "events"
    /\ w_pc' = "after"
    /\ UNCHANGED <<w_pub, w_final_state, w_sent_report, w_nevents>>
    /\ hUnchanged

\* stream_events, or the final invoke, raises.
w_Raises ==
    /\ \/ w_pc = "events"
       \/ w_pc = "after" /\ ~w_final_state.set
    /\ w_pc' = "except"
    /\ UNCHANGED <<w_pub, w_final_state, w_sent_report, w_nevents>>
    /\ hUnchanged

\* After the loop: the final state is fetched if no event carried it, the report
\* is delivered if it was not, then progress 100 and the terminator.
w_Finish ==
    /\ w_pc = "after"
    /\ \E t \in WorkerReports :
         LET final == IF w_final_state.set THEN w_final_state
                      ELSE [set |-> TRUE, final_report |-> t]
             deliver == ~w_sent_report /\ final.final_report # EmptyText
         IN /\ w_final_state' = final
            /\ w_pub' = w_pub
                          \o (IF deliver THEN Fragments(Split(final.final_report)) ELSE <<>>)
                          \o <<Progress(100), Done>>
    /\ w_pc' = "returned"
    /\ UNCHANGED <<w_sent_report, w_nevents>>
    /\ hUnchanged

w_Except ==
    /\ w_pc = "except"
    /\ w_pub' = w_pub \o <<ErrorItem, Done>>
    /\ w_pc' = "raised"
    /\ UNCHANGED <<w_final_state, w_sent_report, w_nevents>>
    /\ hUnchanged

NextWorker ==
    \/ w_Start
    \/ w_SetupRaises
    \/ w_OnNodeStart
    \/ w_OnNodeEnd
    \/ w_OnEnd
    \/ w_OnChainEnd
    \/ w_StreamEnds
    \/ w_Raises
    \/ w_Finish
    \/ w_Except

(***************************************************************************)
(* The /explain response stream of app/api/routes.py                        *)
(***************************************************************************)

\* Tokens one synthesis run streams.
MaxTokens == 1

\* The final_report values an output can carry; EmptyText stands for None and "".
RouteReports == {EmptyText, Text(<<>>, TRUE), Text(<<<<"y">>, <<"z">>>>, FALSE)}

\* The nodes an execution in this mode runs.
NodesOf(mode) ==
    {"mode_gate", "persist"}
        \cup (IF _route_mode([mode |-> mode]) = "chat" THEN ChatNodes ELSE AnalysisNodes)

\* The nodes of the execution that must have completed before node n completes.
Predecessors(n, mode) ==
    ({e[1] : e \in {d \in Edges : d[2] = n}}
        \cup (IF n \in ConditionalTargets([mode |-> mode]) THEN {"mode_gate"} ELSE {}))
      \cap NodesOf(mode)

\* The marker and step log event_stream yields on a node's completion.
NodeMarkers(name) ==
    CASE name = "router" -> <<Progress(10), Status("Router: language detection done.")>>
      [] name = "build_context" -> <<Progress(20), Status("Context ready.")>>
      [] name = "tools_parallel" -> <<Progress(40), Status("Tools complete.")>>
      [] name = "collector" -> <<Progress(60), Status("Expert analysis collected.")>>
      [] name = "synthesis" -> <<Progress(90)>>
      [] OTHER -> <<>>

cUnchanged ==
    UNCHANGED <<llm_available, expVars, gVars, mVars, xVars, cVars, sVars, kVars,
                chatVars, wVars, qVars, nVars, tVars>>

\* event_stream yields ys and goes on to next_pc, unless the consumer cancels at
\* one of the yields: the generator ends there. The locals take their new values
\* after the first pre yields.
Yielding(ys, pre, final_text, final_state, next_pc) ==
    \/ /\ r_out' = r_out \o ys
       /\ r_final_text' = final_text
       /\ r_final_state' = final_state
       /\ r_pc' = next_pc
    \/ \E j \in DOMAIN ys :
         /\ r_out' = r_out \o SubSeq(ys, 1, j)
         /\ r_final_text' = IF j > pre THEN final_text ELSE r_final_text
         /\ r_final_state' = IF j > pre THEN final_state ELSE r_final_state
         /\ r_pc' = "cancelled"

r_Start ==
    /\ r_pc = "idle"
    /\ r_mode' \in {"chat", "orchestrator"}
    /\ Yielding(<<Progress(5)>>, 0, r_final_text, r_final_state, "events")
    /\ UNCHANGED <<r_completed, r_streamed_chunks, r_updates>>
    /\ cUnchanged

\* on_node_end of a node whose predecessors have completed.
r_OnNodeEnd ==
    /\ r_pc = "events"
    /\ \E n \in NodesOf(r_mode) \ r_completed, report \in RouteReports, isdict \in BOOLEAN :
         /\ Predecessors(n, r_mode) \subseteq r_completed
         /\ n # "synthesis" => report = EmptyText /\ isdict
         /\ r_completed' = r_completed \cup {n}
         /\ IF n = "synthesis" /\ isdict
            THEN Yielding(NodeMarkers(n) \o Fragments(Split(report)), 1, report, TRUE, "events")
            ELSE Yielding(NodeMarkers(n), 0, r_final_text, r_final_state, "events")
    /\ UNCHANGED <<r_mode, r_streamed_chunks, r_updates>>
    /\ cUnchanged

\* on_chat_model_stream of synthesis: a token of the report.
r_OnChatModelStream ==
    /\ r_pc = "events"
    /\ "collector" \in r_completed
    /\ "synthesis" \notin r_completed
    /\ Len(r_streamed_chunks) < MaxTokens
    /\ \E content \in ChunkContents :
         IF TruthyContent(content)
         THEN /\ r_streamed_chunks' = Append(r_streamed_chunks, content)
              /\ Yielding(<<Fragment(content.text.ps[1])>>, 0, r_final_text, r_final_state,
                          "events")
         ELSE UNCHANGED <<r_pc, r_out, r_final_text, r_final_state, r_streamed_chunks>>
    /\ UNCHANGED <<r_mode, r_completed, r_updates>>
    /\ cUnchanged

\* on_graph_end: the final state when the execution has ended.
r_OnGraphEnd ==
    /\ r_pc = "events"
    /\ "persist" \in r_completed
    /\ "graph" \notin r_completed
    /\ r_completed' = r_completed \cup {"graph"}
    /\ \E report \in RouteReports :
         /\ r_final_text' = IF r_final_text # EmptyText THEN r_final_text ELSE report
         /\ r_final_state' = TRUE
    /\ UNCHANGED <<r_pc, r_mode, r_out, r_streamed_chunks, r_updates>>
    /\ cUnchanged

\* The event source ends, or raises and the error is logged.
r_StreamOver ==
    /\ r_pc = "events"
    /\ r_pc' = "invoke"
    /\ UNCHANGED <<r_mode, r_out, r_completed, r_final_text, r_final_state,
                   r_streamed_chunks, r_updates>>
    /\ cUnchanged

\* The consumer goes away while event_stream awaits the next event or the invoke.
r_CancelledAwaiting ==
    /\ r_pc \in {"events", "invoke"}
    /\ r_pc' = "cancelled"
    /\ UNCHANGED <<r_mode, r_out, r_completed, r_final_text, r_final_state,
                   r_streamed_chunks, r_updates>>
    /\ cUnchanged

\* if not final_text: one ainvoke, its report yielded; an error is logged.
r_FinalInvoke ==
    /\ r_pc = "invoke"
    /\ IF r_final_text # EmptyText
       THEN UNCHANGED <<r_out, r_final_text, r_final_state>> /\ r_pc' = "persist"
       ELSE \/ UNCHANGED <<r_out, r_final_text, r_final_state>> /\ r_pc' = "persist"
            \/ \E report \in RouteReports :
                 Yielding(Fragments(Split(report)), 0, report, TRUE, "persist")
    /\ UNCHANGED <<r_mode, r_completed, r_streamed_chunks, r_updates>>
    /\ cUnchanged

\* The streamed chunks stand in for a missing final text, the thread is
\* persisted, and the closing items are yielded.
r_PersistAndClose ==
    /\ r_pc = "persist"
    /\ LET joined == r_final_text = EmptyText /\ r_streamed_chunks # <<>>
           raises == joined /\ ~AllStr(r_streamed_chunks)
           text == IF joined THEN Text(<<r_streamed_chunks[1].text.ps[1]>>, FALSE)
                   ELSE r_final_text
       IN IF raises
          THEN /\ r_pc' = "raised"
               /\ UNCHANGED <<r_out, r_final_text, r_final_state, r_updates>>
          ELSE /\ r_updates' = IF text # EmptyText THEN Append(r_updates, text)
                               ELSE r_updates
               /\ Yielding(<<Status("Chat ready."), Progress(100)>>, 0, text,
                           r_final_state, "done")
    /\ UNCHANGED <<r_mode, r_completed, r_streamed_chunks>>
    /\ cUnchanged

NextRoutes ==
    \/ r_Start
    \/ r_OnNodeEnd
    \/ r_OnChatModelStream
    \/ r_OnGraphEnd
    \/ r_StreamOver
    \/ r_CancelledAwaiting
    \/ r_FinalInvoke
    \/ r_PersistAndClose

InitRoutes ==
    /\ llm_available = FALSE
    /\ ExpertsIdle
    /\ GraphIdle
    /\ StreamIdle
    /\ OthersIdle

SpecRoutes == InitRoutes /\ [][NextRoutes]_vars

\* One /chat request and one task, each with its own stream.
InitDone ==
    /\ llm_available = FALSE
    /\ ExpertsIdle
    /\ GraphIdle
    /\ StreamIdle
    /\ CacheIdle
    /\ SynthesisIdle
    /\ BuildIdle
    /\ CheckpointIdle
    /\ HandlersIdle

NextDone ==
    \/ NextChat
    \/ NextWorker

SpecDone == InitDone /\ [][NextDone]_vars

ChatOver == h_pc \in {"done", "raised"}
WorkerOver == w_pc \in {"returned", "raised"}

DoneOnlyLast(out) == \A i \in DOMAIN out : out[i].kind = "done" => i = Len(out)
EndsWithDone(out) == out # <<>> /\ out[Len(out)].kind = "done"

\* C17: the /chat response stream and the messages run_graph_stream publishes
\* each contain the done marker exactly once, as the last item and with nothing
\* after it, on the success path and on every failure path.
C17_DoneOnceLast ==
    /\ DoneOnlyLast(h_out)
    /\ DoneOnlyLast(w_pub)
    /\ (ChatOver => EndsWithDone(h_out))
    /\ (WorkerOver => EndsWithDone(w_pub))

ProgressOf(out) == SelectSeq(out, LAMBDA item : item.kind = "progress")

\* The progress values of a stream start at 5 and never go down.
ProgressRises(out) ==
    LET ps == ProgressOf(out)
    IN /\ ps # <<>> => ps[1].val = 5
       /\ \A i, j \in DOMAIN ps : i < j => ps[i].val <= ps[j].val

EndsAt100(out) == LET ps == ProgressOf(out) IN ps # <<>> /\ ps[Len(ps)].val = 100

\* C18: within one /explain response the progress values are non-decreasing
\* from 5 to 100, for every node completion order and on the fallback path.
C18_ProgressNonDecreasing ==
    /\ x_handler = "explain" => ProgressRises(x_out)
    /\ x_handler = "explain" /\ xpc = "done" => EndsAt100(x_out)
    /\ ProgressRises(r_out)
    /\ r_pc = "done" => EndsAt100(r_out)

\* C19: when the consumer cancels an /explain stream after the final report text
\* has been obtained and before the stream finishes, no further event is
\* forwarded and repo.update_thread is still attempted.
C19_CancelStillPersists ==
    /\ [](r_pc = "cancelled" /\ r_final_text # EmptyText => r_updates # <<>>)
    /\ [][r_pc = "cancelled" => r_out' = r_out]_vars

\* C20: _route_mode returns a label of {chat, analyze}: "chat" exactly when the
\* lower-cased mode equals "chat" and "analyze" otherwise, and no execution
\* takes an edge for a label the conditional edges do not declare.
C20_RouteLabelDeclared ==
    LET label == _route_mode(g_state)
    IN /\ label \in {"chat", "analyze"}
       /\ label \in DOMAIN ModeMapping
       /\ label = "chat" <=> LowerMode(g_state.mode) = "chat"
       /\ Ran({"chat_context_enrich"}) => label = "chat"
       /\ Ran({"router"}) => label = "analyze"
       /\ g_runs["mode_gate"] > 0 /\ "mode_gate" \notin g_active /\ ~g_ended
            => Ran({ModeMapping[label]})

\* mode_gate has just routed an upper-case CHAT request to the chat branch.
C20_Witness ==
    /\ g_state.mode = "CHAT"
    /\ g_runs["mode_gate"] = 1
    /\ g_active = {"chat_context_enrich"}
    /\ g_done = {}

\* C21: along the analysis path from initial_state the progress of the state is
\* within 0..100 after every node completion and never lower than after the
\* previous one; the final state has progress at most 100.
C21_ProgressMonotone ==
    /\ [](AnalysisBranch => g_state.progress \in 0..100)
    /\ [][AnalysisBranch => g_state'.progress >= g_state.progress]_vars
    /\ [](AnalysisBranch => \A n \in DOMAIN g_writes :
             "progress" \in DOMAIN g_writes[n]
                 => g_writes[n].progress \in g_state.progress..100)

\* An analysis has ended with progress 100 after passing 80 at the collector.
C21_Witness ==
    /\ g_ended
    /\ AnalysisBranch
    /\ g_runs["synthesis"] = 1
    /\ g_state.progress = 100

\* C22: a set call never changes or replaces the embedding or value of an entry
\* that is already stored: below the capacity every stored entry is still there
\* unchanged after the call, and the call adds one entry, also for a query that
\* was set before.
C22_SetKeepsStoredEntries ==
    [][\A ns \in Namespaces :
          Len(c_store[ns]) < CacheCap =>
              /\ \A i \in DOMAIN c_store[ns] :
                    \E j \in DOMAIN c_store'[ns] : c_store'[ns][j] = c_store[ns][i]
              /\ c_store'[ns] # c_store[ns] => Len(c_store'[ns]) = Len(c_store[ns]) + 1]_vars

(***************************************************************************)
(* /explain in Celery mode: explain.event_stream relays the channel the     *)
(* run_graph_stream task publishes on (app/core/redis_pubsub.py)            *)
(***************************************************************************)

qUnchanged ==
    UNCHANGED <<llm_available, expVars, gVars, mVars, xVars, cVars, sVars, kVars,
                chatVars, wVars, rVars, nVars, tVars>>

\* run_graph_stream.delay(thread_id, state) under suppress(Exception).
q_Dispatch ==
    /\ q_pc = "idle"
    /\ q_task' \in {"queued", "failed"}
    /\ q_pc' = "dispatched"
    /\ UNCHANGED <<q_from, q_read>>
    /\ qUnchanged

\* ps.subscribe(channel): the subscription receives what is published from now on.
q_Subscribe ==
    /\ q_pc = "dispatched"
    /\ q_from' = Len(w_pub)
    /\ q_pc' = "polling"
    /\ UNCHANGED <<q_task, q_read>>
    /\ qUnchanged

\* get_message returns the next message: it is yielded, and the terminator ends
\* the loop.
q_Relay ==
    /\ q_pc = "polling"
    /\ q_from + q_read < Len(w_pub)
    /\ q_read' = q_read + 1
    /\ q_pc' = IF w_pub[q_from + q_read + 1].kind = "done" THEN "done" ELSE "polling"
    /\ UNCHANGED <<q_task, q_from>>
    /\ qUnchanged

\* The subscription raises: event_stream falls through to direct streaming.
q_PubSubRaises ==
    /\ q_pc \in {"dispatched", "polling"}
    /\ q_pc' = "direct"
    /\ UNCHANGED <<q_task, q_from, q_read>>
    /\ qUnchanged

\* The worker runs the task once it is queued.
q_WorkerStep ==
    /\ q_task = "queued"
    /\ NextWorker

NextCelery ==
    \/ q_Dispatch
    \/ q_Subscribe
    \/ q_Relay
    \/ q_PubSubRaises
    \/ q_WorkerStep

InitCelery ==
    /\ llm_available = FALSE
    /\ ExpertsIdle
    /\ GraphIdle
    /\ StreamIdle
    /\ OthersIdle

SpecCelery == InitCelery /\ [][NextCelery]_vars

\* The worker and the endpoint keep running, and a message that is waiting in
\* the subscription is read.
FairSpecCelery ==
    SpecCelery /\ WF_vars(q_WorkerStep) /\ WF_vars(q_Dispatch) /\ WF_vars(q_Subscribe)
               /\ WF_vars(q_Relay)

\* The messages yielded to the client.
Relayed == SubSeq(w_pub, q_from + 1, q_from + q_read)

\* C23: in Celery mode every message the worker publishes, the terminator
\* included, is relayed to the client in publish order and the stream
\* terminates, for every interleaving of the publishes with the subscription
\* and also when dispatching the task fails.
C23_AllRelayedAndTerminates ==
    /\ [](q_pc = "done" => Relayed = w_pub)
    /\ <>(q_pc \in {"done", "direct"})

(***************************************************************************)
(* Callers of ConversationMemory.append_user and append_assistant_if_new    *)
(***************************************************************************)

\* Calls made on the thread's memory.
MaxCalls == 3

\* The contents a caller passes: none, blanks, and texts with or without
\* surrounding whitespace.
MemoryContents == {EmptyText, Text(<<>>, TRUE), Text(<<<<"y">>>>, FALSE),
                   Text(<<<<"y">>>>, TRUE), Text(<<<<"z">>>>, FALSE)}

RoleOf(op) == IF op = "append_user" THEN "user" ELSE "assistant"

nUnchanged ==
    UNCHANGED <<llm_available, expVars, gVars, xVars, cVars, sVars, kVars,
                chatVars, wVars, rVars, qVars, tVars,
                m_seen_paragraphs, m_last_report_hash, m_last_report_text>>

\* A caller enters append_user or append_assistant_if_new and reads
\* last_message under the slot's lock.
n_Call(t) ==
    /\ n_thr[t].pc = "idle"
    /\ n_calls < MaxCalls
    /\ \E op \in {"append_user", "append_assistant_if_new"}, content \in MemoryContents :
         n_thr' = [n_thr EXCEPT ![t] = [pc |-> "read", op |-> op, content |-> content,
                                        last |-> last_message(m_history), ret |-> FALSE]]
    /\ n_calls' = n_calls + 1
    /\ UNCHANGED m_history
    /\ nUnchanged

\* The rest of the call: nothing for an empty content or for the content of the
\* last message it read, else _append, which takes the lock again; the result.
n_Return(t) ==
    /\ n_thr[t].pc = "read"
    /\ LET c == n_thr[t]
           dup == /\ c.last.role = RoleOf(c.op)
                  /\ Strip(c.last.content) = Strip(c.content)
           skip == c.content = EmptyText \/ dup
       IN /\ m_history' = IF skip THEN m_history
                          ELSE _append(m_history, RoleOf(c.op), c.content)
          /\ n_thr' = [n_thr EXCEPT ![t] = [c EXCEPT !.pc = "idle", !.ret = ~skip]]
    /\ UNCHANGED n_calls
    /\ nUnchanged

InitMemory ==
    /\ llm_available = FALSE
    /\ ExpertsIdle
    /\ GraphIdle
    /\ StreamIdle
    /\ OthersIdle

\* One caller at a time.
NextMemory ==
    \/ n_Call(1)
    \/ n_Return(1)

SpecMemory == InitMemory /\ [][NextMemory]_vars

\* Two callers on the same thread's memory.
NextMemoryThreads ==
    \/ \E t \in Threads : n_Call(t)
    \/ \E t \in Threads : n_Return(t)

SpecMemoryThreads == InitMemory /\ [][NextMemoryThreads]_vars

\* C24: under any interleaving of concurrent append_user and
\* append_assistant_if_new calls the history never holds two consecutive
\* messages with the same role and the same trimmed content.
C24_NoConsecutiveDuplicates ==
    \A i \in 1..(Len(m_history) - 1) :
        ~ /\ m_history[i].role = m_history[i + 1].role
          /\ Strip(m_history[i].content) = Strip(m_history[i + 1].content)

HasAssistant(history) == \E i \in DOMAIN history : history[i].role = "assistant"

\* C25: append_assistant_if_new returns False and leaves the history unchanged
\* exactly when the trimmed content equals the most recent assistant message;
\* otherwise it appends exactly one assistant message and returns True.
C25_AppendAssistantIfNew ==
    [][\A t \in Threads :
          n_thr[t].pc = "read" /\ n_thr'[t].pc = "idle" /\ n_thr[t].op = "append_assistant_if_new"
          => LET content == n_thr[t].content
                 same == /\ HasAssistant(m_history)
                         /\ Strip(content) = last_assistant(m_history)
             IN IF same THEN ~n_thr'[t].ret /\ m_history' = m_history
                ELSE /\ n_thr'[t].ret
                     /\ m_history' = Append(m_history, [role |-> "assistant",
                                                        content |-> Strip(content)])]_vars

\* The key each node of the expert step may write.
OwnKey == [security_expert |-> "security_expert_analysis",
           api_expert |-> "api_expert_analysis",
           db_expert |-> "db_expert_analysis",
           ast_analysis |-> "ast_report"]

\* The orders in which the nodes of S can complete.
Orders(S) ==
    {o \in [1..Cardinality(S) -> S] : \A i, j \in DOMAIN o : i # j => o[i] # o[j]}

\* The updates applied in the order the nodes completed.
RECURSIVE ApplyInOrder(_, _, _)
ApplyInOrder(state, writes, order) ==
    IF order = <<>> THEN state
    ELSE ApplyInOrder(Merge(state, writes[Head(order)]), writes, Tail(order))

\* C26: security_expert, api_expert, db_expert and ast_analysis each return an
\* update for their own key only; the keys are pairwise disjoint, so the state
\* the collector sees is the same for every completion order and no other field
\* is changed by them.
C26_ExpertsWriteOwnKeys ==
    LET experts == DOMAIN g_writes \cap CollectorPredecessors
    IN /\ \A n \in experts : DOMAIN g_writes[n] \subseteq {OwnKey[n]}
       /\ \A a, b \in experts : a # b => DOMAIN g_writes[a] \cap DOMAIN g_writes[b] = {}
       /\ g_done = CollectorPredecessors =>
            LET after == ApplyWrites(g_state, g_writes)
            IN /\ \A o \in Orders(CollectorPredecessors) :
                     ApplyInOrder(g_state, g_writes, o) = after
               /\ \A k \in DOMAIN g_state :
                     k \notin {OwnKey[n] : n \in DOMAIN OwnKey} => after[k] = g_state[k]

\* The four nodes have returned, the LLM experts with findings, and the
\* collector is next.
C26_Witness ==
    /\ g_done = CollectorPredecessors
    /\ Cardinality(CollectorPredecessors) = 4
    /\ g_writes["security_expert"].security_expert_analysis.found = {"critical"}
    /\ g_writes["db_expert"].db_expert_analysis.found = {"risks"}
    /\ DOMAIN g_writes["ast_analysis"] = {"ast_report"}

\* The paragraphs of the reply text the /chat stream has carried.
EmittedParas == {FragmentsOf(h_out)[i].val : i \in DOMAIN FragmentsOf(h_out)}

\* The paragraphs of a stored message.
StoredParas(msg) == UNION {{msg[i].ps[j] : j \in DOMAIN msg[i].ps} : i \in DOMAIN msg}

\* C27: for every event sequence of /chat, when reply text was emitted then by
\* the end of the stream exactly one assistant message, containing that text,
\* has been added to the repository.
C27_ReplyPersistedOnce ==
    (ChatOver /\ EmittedParas # {}) =>
        /\ Len(h_repo) = 1
        /\ EmittedParas \subseteq StoredParas(h_repo[1])

\* The step yields whole paragraphs of the report: those of the synthesis
\* completion event or those of the fallback invoke.
YieldsParagraphs ==
    /\ r_pc \in {"events", "invoke"}
    /\ r_streamed_chunks' = r_streamed_chunks
    /\ FragmentsOf(SubSeq(r_out', Len(r_out) + 1, Len(r_out'))) # <<>>

\* C29: /explain delivers the final report text at most once: whole paragraphs
\* are yielded only when no synthesis token was streamed and no paragraph was
\* yielded before, be it by the event stream or by the fallback invoke.
C29_ReportDeliveredOnce ==
    [][YieldsParagraphs => (r_streamed_chunks = <<>> /\ FragmentsOf(r_out) = <<>>)]_vars

(***************************************************************************)
(* The thread routes (app/api/routes.py, app/db/repository.py,              *)
(* app/services/cache.py)                                                   *)
(***************************************************************************)

\* Requests served in one run.
MaxOps == 4

Titles == {"Analysis", "Renamed"}
RouteReportTexts == {"r1", "r2"}
RouteStates == {"s1"}
FileCounts == {0, 2}

\* ThreadRepository.update_thread: None arguments and a file_count of 0 leave the
\* field as it is; a missing thread is created as "New Analysis".
update_threadOverwritesTitle(th, report_text, state, file_count, title, now) ==
    LET base == IF th.exists THEN th ELSE [NoThread EXCEPT !.title = "New Analysis"]
    IN [exists |-> TRUE,
        title |-> title,
        report_text |-> IF report_text # "None" THEN report_text ELSE base.report_text,
        state_json |-> IF state # "None" THEN state ELSE base.state_json,
        file_count |-> IF file_count > 0 THEN file_count ELSE base.file_count,
        updated_at |-> now]
update_thread(th, report_text, state, file_count, title, now) ==
    LET base == IF th.exists THEN th ELSE [NoThread EXCEPT !.title = "New Analysis"]
    IN [exists |-> TRUE,
        title |-> IF title # "None" THEN title ELSE base.title,
        report_text |-> IF report_text # "None" THEN report_text ELSE base.report_text,
        state_json |-> IF state # "None" THEN state ELSE base.state_json,
        file_count |-> IF file_count > 0 THEN file_count ELSE base.file_count,
        updated_at |-> now]

\* ThreadRepository.add_message: the message is stored and an existing thread's
\* updated_at is touched.
add_message(th, msgs, role, content, now) ==
    [thread |-> IF th.exists THEN [th EXCEPT !.updated_at = now] ELSE th,
     msgs |-> Append(msgs, [role |-> role, content |-> content])]

\* The dict get_thread builds from the repository.
Snapshot(th, msgs) ==
    IF ~th.exists THEN NoSnapshot
    ELSE [thread_id |-> TRUE, title |-> th.title, report_text |-> th.report_text,
          state |-> th.state_json, messages |-> msgs]

tUnchanged ==
    UNCHANGED <<llm_available, expVars, gVars, mVars, xVars, cVars, sVars, kVars,
                chatVars, wVars, rVars, qVars, nVars>>

Served(op) ==
    /\ t_nops < MaxOps
    /\ t_nops' = t_nops + 1
    /\ t_last' = op
    /\ UNCHANGED t_redis
    /\ tUnchanged

\* /explain persists the report and the state, then invalidates the cache.
t_ExplainPersist ==
    /\ \E report \in RouteReportTexts, state \in RouteStates, file_count \in FileCounts :
         t_thread' = update_thread(t_thread, report, state, file_count, "None", t_nops + 1)
    /\ t_cache' = NoSnapshot
    /\ UNCHANGED <<t_msgs, t_got>>
    /\ Served("explain")

\* PATCH /threads/{thread_id}
t_PatchTitle ==
    /\ \E title \in Titles \cup {"None"} :
         t_thread' = update_thread(t_thread, "None", "None", 0, title, t_nops + 1)
    /\ t_cache' = NoSnapshot
    /\ UNCHANGED <<t_msgs, t_got>>
    /\ Served("patch")

\* DELETE /threads/{thread_id}
t_Delete ==
    /\ t_thread' = NoThread
    /\ t_msgs' = <<>>
    /\ t_cache' = NoSnapshot
    /\ UNCHANGED t_got
    /\ Served("delete")

\* /chat stores the user's question.
t_ChatUser ==
    /\ LET r == add_message(t_thread, t_msgs, "user", "q", t_nops + 1)
       IN \/ /\ t_thread' = r.thread
             /\ t_msgs' = r.msgs
             /\ Served("chat")
          \/ /\ UNCHANGED <<t_thread, t_msgs>>
             /\ Served("chat_failed")
    /\ UNCHANGED <<t_cache, t_got>>

\* _persist_assistant_reply: add_message, then update_thread(thread_id, title=None).
t_ChatReply ==
    /\ \E outcome \in RepoOutcomes :
         LET r == add_message(t_thread, t_msgs, "assistant", "a", t_nops + 1)
         IN CASE outcome = "add_raises" ->
                   /\ UNCHANGED <<t_thread, t_msgs>>
                   /\ Served("chat_failed")
              [] outcome = "update_raises" ->
                   /\ t_thread' = r.thread
                   /\ t_msgs' = r.msgs
                   /\ Served("chat_failed")
              [] OTHER ->
                   /\ t_thread' = update_thread(r.thread, "None", "None", 0, "None",
                                                t_nops + 1)
                   /\ t_msgs' = r.msgs
                   /\ Served("chat")
    /\ UNCHANGED <<t_cache, t_got>>

\* GET /threads/{thread_id}: the cached dict when there is one, else the
\* repository's, which is cached for 30 seconds.
t_Get ==
    /\ IF t_cache.thread_id
       THEN /\ t_got' = t_cache
            /\ UNCHANGED t_cache
       ELSE /\ t_got' = Snapshot(t_thread, t_msgs)
            /\ t_cache' = IF t_redis /\ t_thread.exists THEN Snapshot(t_thread, t_msgs)
                          ELSE t_cache
    /\ UNCHANGED <<t_thread, t_msgs>>
    /\ Served("get")

\* The cache entry's 30 seconds are over.
t_Expire ==
    /\ t_cache # NoSnapshot
    /\ t_cache' = NoSnapshot
    /\ UNCHANGED <<t_redis, t_thread, t_msgs, t_got, t_last, t_nops>>
    /\ tUnchanged

NextThreads ==
    \/ t_ExplainPersist
    \/ t_PatchTitle
    \/ t_Delete
    \/ t_ChatUser
    \/ t_ChatReply
    \/ t_Get
    \/ t_Expire

InitThreads ==
    /\ llm_available = FALSE
    /\ ExpertsIdle
    /\ GraphIdle
    /\ StreamIdle
    /\ CacheIdle
    /\ SynthesisIdle
    /\ BuildIdle
    /\ CheckpointIdle
    /\ ChatIdle
    /\ WorkerIdle
    /\ RoutesIdle
    /\ PubSubIdle
    /\ CallersIdle
    /\ t_redis \in BOOLEAN
    /\ t_thread = NoThread
    /\ t_msgs = <<>>
    /\ t_cache = NoSnapshot
    /\ t_got = NoSnapshot
    /\ t_last = "none"
    /\ t_nops = 0

SpecThreads == InitThreads /\ [][NextThreads]_vars

\* C28: after a write to a thread (report and state, title, deletion, chat
\* message) has completed, the next GET /threads/{thread_id} returns the
\* repository's content, never an older cached snapshot.
C28_GetReflectsWrites ==
    t_last = "get" => t_got = Snapshot(t_thread, t_msgs)

\* C30: a /chat request leaves an existing thread's report_text, state_json,
\* title and file_count as they are: persisting the reply adds one message and
\* sets updated_at, nothing else.
C30_ChatKeepsThreadFields ==
    [][(t_nops' # t_nops /\ t_last' \in {"chat", "chat_failed"} /\ t_thread.exists) =>
          /\ t_thread' = [t_thread EXCEPT !.updated_at = t_thread'.updated_at]
          /\ Len(t_msgs') <= Len(t_msgs) + 1
          /\ SubSeq(t_msgs', 1, Len(t_msgs)) = t_msgs
          /\ (t_last' = "chat" =>
                /\ Len(t_msgs') = Len(t_msgs) + 1
                /\ t_thread'.updated_at = t_nops')]_vars

\* The reply of a chat has been stored in a thread that has a report, a state, a
\* file count and a title of its own.
C30_Witness ==
    /\ t_last = "chat"
    /\ t_msgs # <<>>
    /\ t_msgs[Len(t_msgs)].role = "assistant"
    /\ t_thread.title = "Renamed"
    /\ t_thread.report_text \in RouteReportTexts
    /\ t_thread.file_count = 2
====
